---- MODULE Spec2Model ----
(***************************************************************************)
(* Address book: validated fields (Name, Phone, Birthday), the contact     *)
(* Record, the AddressBook collection and its upcoming-birthdays query.     *)
(* Strings are sequences of one-character strings; dates are records       *)
(* [y, m, d] of the proleptic Gregorian calendar, as datetime.date.         *)
(***************************************************************************)
EXTENDS Integers, Sequences, FiniteSets, TLC

VARIABLES today, ticks, heap, book, field, last, disk, session

vars == <<today, ticks, heap, book, field, last, disk, session>>

(***************************************************************************)
(* Bounds of the model.                                                    *)
(***************************************************************************)
MaxNameLen == 3
MaxPhoneInputLen == 11
MaxPhones == 3
MaxRecords == 2
MaxTicks == 2

(***************************************************************************)
(* Characters and strings.                                                 *)
(***************************************************************************)
DigitChars == <<"0", "1", "2", "3", "4", "5", "6", "7", "8", "9">>

Digits == {DigitChars[i] : i \in 1..Len(DigitChars)}

Letters ==
    {"a", "b", "c", "d", "e", "f", "g", "h", "i", "j", "k", "l", "m",
     "n", "o", "p", "q", "r", "s", "t", "u", "v", "w", "x", "y", "z",
     "A", "B", "C", "D", "E", "F", "G", "H", "I", "J", "K", "L", "M",
     "N", "O", "P", "Q", "R", "S", "T", "U", "V", "W", "X", "Y", "Z"}

Whitespace == {" ", "\t", "\n"}

Separators == {" ", "-"}

DigitVal(c) == CHOOSE i \in 0..9 : DigitChars[i + 1] = c

IsDigits(s) == \A i \in 1..Len(s) : s[i] \in Digits

\* int(s) of a digit string
RECURSIVE NumVal(_)
NumVal(s) ==
    IF s = <<>> THEN 0
    ELSE 10 * NumVal(SubSeq(s, 1, Len(s) - 1)) + DigitVal(s[Len(s)])

\* str.strip()
RECURSIVE LStrip(_)
LStrip(s) ==
    IF s # <<>> /\ Head(s) \in Whitespace THEN LStrip(Tail(s)) ELSE s

RECURSIVE RStrip(_)
RStrip(s) ==
    IF s # <<>> /\ s[Len(s)] \in Whitespace
    THEN RStrip(SubSeq(s, 1, Len(s) - 1))
    ELSE s

Strip(s) == RStrip(LStrip(s))

\* ''.join(filter(str.isdigit, s))
RECURSIVE FilterDigits(_)
FilterDigits(s) ==
    IF s = <<>> THEN <<>>
    ELSE IF Head(s) \in Digits
         THEN <<Head(s)>> \o FilterDigits(Tail(s))
         ELSE FilterDigits(Tail(s))

\* the value None of a field that holds nothing
None == <<"None">>

(***************************************************************************)
(* Calendar (datetime.date).                                               *)
(***************************************************************************)
NoDate == [y |-> 0, m |-> 0, d |-> 0]

MkDate(y, m, d) == [y |-> y, m |-> m, d |-> d]

IsLeap(y) == y % 4 = 0 /\ (y % 100 # 0 \/ y % 400 = 0)

DaysInMonth(y, m) ==
    IF m = 2 THEN (IF IsLeap(y) THEN 29 ELSE 28)
    ELSE IF m \in {4, 6, 9, 11} THEN 30 ELSE 31

\* datetime.date(y, m, d) does not raise ValueError
ValidDate(y, m, d) ==
    /\ y \in 1..9999
    /\ m \in 1..12
    /\ d \in 1..DaysInMonth(y, m)

DaysBeforeYear(y) ==
    (y - 1) * 365 + ((y - 1) \div 4) - ((y - 1) \div 100) + ((y - 1) \div 400)

RECURSIVE DaysBeforeMonth(_, _)
DaysBeforeMonth(y, m) ==
    IF m = 1 THEN 0 ELSE DaysBeforeMonth(y, m - 1) + DaysInMonth(y, m - 1)

\* date.toordinal()
ToOrdinal(dt) == DaysBeforeYear(dt.y) + DaysBeforeMonth(dt.y, dt.m) + dt.d

\* date.weekday(): 0 = Monday .. 6 = Sunday
Weekday(dt) == (ToOrdinal(dt) + 6) % 7

\* a < b on dates
DateLess(a, b) == ToOrdinal(a) < ToOrdinal(b)

\* (a - b).days
DaysBetween(a, b) == ToOrdinal(a) - ToOrdinal(b)

NextDay(dt) ==
    IF dt.d < DaysInMonth(dt.y, dt.m) THEN MkDate(dt.y, dt.m, dt.d + 1)
    ELSE IF dt.m < 12 THEN MkDate(dt.y, dt.m + 1, 1)
    ELSE MkDate(dt.y + 1, 1, 1)

\* dt + timedelta(days=n), n >= 0
RECURSIVE AddDays(_, _)
AddDays(dt, n) == IF n = 0 THEN dt ELSE AddDays(NextDay(dt), n - 1)

\* date.replace(year=y): ValueError when the day does not exist in year y
ReplaceYear(dt, y) ==
    IF ValidDate(y, dt.m, dt.d)
    THEN [ok |-> TRUE, date |-> MkDate(y, dt.m, dt.d)]
    ELSE [ok |-> FALSE, date |-> NoDate]

Pad2(n) == <<DigitChars[(n \div 10) + 1], DigitChars[(n % 10) + 1]>>

Pad4(n) ==
    <<DigitChars[(n \div 1000) + 1], DigitChars[((n \div 100) % 10) + 1],
      DigitChars[((n \div 10) % 10) + 1], DigitChars[(n % 10) + 1]>>

\* date.strftime('%d.%m.%Y')
Strftime(dt) == Pad2(dt.d) \o <<".">> \o Pad2(dt.m) \o <<".">> \o Pad4(dt.y)

\* the date a string written DD.MM.YYYY exactly names, read by position
DateAt(s) ==
    MkDate(NumVal(SubSeq(s, 7, 10)), NumVal(SubSeq(s, 4, 5)), NumVal(SubSeq(s, 1, 2)))

(***************************************************************************)
(* Field validation.  A setter yields the exception it raises ("none" when *)
(* it returns) and the _value the field holds afterwards.                   *)
(***************************************************************************)
IsStr(x) == x # None

AlNum == Letters \cup Digits

\* re.match(r'^[a-zA-Z](?:[a-zA-Z0-9]|(?<![ -])[ -](?![ -])){1,}$', s) on the
\* first n characters of s
NameBodyMatches(s, n) ==
    /\ n >= 2
    /\ s[1] \in Letters
    /\ \A i \in 2..n :
         \/ s[i] \in AlNum
         \/ /\ s[i] \in Separators
            /\ s[i - 1] \notin Separators
            /\ (i < Len(s) => s[i + 1] \notin Separators)

\* '$' matches at the end of the string and before a newline that ends it
NameMatches(s) ==
    \/ NameBodyMatches(s, Len(s))
    \/ /\ Len(s) >= 1
       /\ s[Len(s)] = "\n"
       /\ NameBodyMatches(s, Len(s) - 1)

\* the setter with the pattern check ahead of the emptiness check
NameSetterPatternFirst(cur, new_value) ==
    IF ~IsStr(new_value) THEN [exc |-> "InvalidNameError", value |-> cur]
    ELSE IF ~NameMatches(new_value) THEN [exc |-> "InvalidNameError", value |-> cur]
    ELSE IF Strip(new_value) = <<>> THEN [exc |-> "EmptyNameError", value |-> cur]
    ELSE [exc |-> "none", value |-> Strip(new_value)]

NameSetter(cur, new_value) ==
    IF ~IsStr(new_value) THEN [exc |-> "InvalidNameError", value |-> cur]
    ELSE IF Strip(new_value) = <<>> THEN [exc |-> "EmptyNameError", value |-> cur]
    ELSE IF ~NameMatches(new_value) THEN [exc |-> "InvalidNameError", value |-> cur]
    ELSE [exc |-> "none", value |-> Strip(new_value)]

PhoneLen == 10

\* PhoneSetter with "fewer than 10 digits" as its length check
PhoneSetterAtLeast(cur, new_value) ==
    IF ~IsStr(new_value) THEN [exc |-> "InvalidPhoneError", value |-> cur]
    ELSE LET cleaned_value == FilterDigits(new_value)
         IN  IF ~(cleaned_value # <<>> /\ IsDigits(cleaned_value))
             THEN [exc |-> "InvalidPhoneError", value |-> cur]
             ELSE IF Len(cleaned_value) < PhoneLen
             THEN [exc |-> "InvalidPhoneError", value |-> cur]
             ELSE [exc |-> "none", value |-> cleaned_value]

\* PhoneSetter storing the cleaned digits before it checks their number
PhoneSetterStoreFirst(cur, new_value) ==
    IF ~IsStr(new_value) THEN [exc |-> "InvalidPhoneError", value |-> cur]
    ELSE LET cleaned_value == FilterDigits(new_value)
         IN  IF ~(cleaned_value # <<>> /\ IsDigits(cleaned_value))
             THEN [exc |-> "InvalidPhoneError", value |-> cur]
             ELSE IF Len(cleaned_value) # PhoneLen
             THEN [exc |-> "InvalidPhoneError", value |-> cleaned_value]
             ELSE [exc |-> "none", value |-> cleaned_value]

PhoneSetter(cur, new_value) ==
    IF ~IsStr(new_value) THEN [exc |-> "InvalidPhoneError", value |-> cur]
    ELSE LET cleaned_value == FilterDigits(new_value)
         IN  IF ~(cleaned_value # <<>> /\ IsDigits(cleaned_value))
             THEN [exc |-> "InvalidPhoneError", value |-> cur]
             ELSE IF Len(cleaned_value) # PhoneLen
             THEN [exc |-> "InvalidPhoneError", value |-> cur]
             ELSE [exc |-> "none", value |-> cleaned_value]

\* DayToken without the one-digit day
DayTokenTwoDigits(t) ==
    \/ Len(t) = 2 /\ t[1] = "3" /\ t[2] \in {"0", "1"}
    \/ Len(t) = 2 /\ t[1] \in {"1", "2"} /\ t[2] \in Digits
    \/ Len(t) = 2 /\ t[1] = "0" /\ t[2] \in Digits \ {"0"}

\* the directive %d: 3[0-1]|[1-2]\d|0[1-9]|[1-9]| [1-9]
DayToken(t) ==
    \/ Len(t) = 2 /\ t[1] = "3" /\ t[2] \in {"0", "1"}
    \/ Len(t) = 2 /\ t[1] \in {"1", "2"} /\ t[2] \in Digits
    \/ Len(t) = 2 /\ t[1] = "0" /\ t[2] \in Digits \ {"0"}
    \/ Len(t) = 1 /\ t[1] \in Digits \ {"0"}
    \/ Len(t) = 2 /\ t[1] = " " /\ t[2] \in Digits \ {"0"}

\* the directive %m: 1[0-2]|0[1-9]|[1-9]
MonthToken(t) ==
    \/ Len(t) = 2 /\ t[1] = "1" /\ t[2] \in {"0", "1", "2"}
    \/ Len(t) = 2 /\ t[1] = "0" /\ t[2] \in Digits \ {"0"}
    \/ Len(t) = 1 /\ t[1] \in Digits \ {"0"}

\* the directive %Y: \d\d\d\d
YearToken(t) == Len(t) = 4 /\ IsDigits(t)

\* the splits of s into day "." month "." year that the format's regex matches
DateSplits(s) ==
    {sp \in {1, 2} \X {1, 2} :
        /\ Len(s) = sp[1] + sp[2] + 6
        /\ s[sp[1] + 1] = "."
        /\ s[sp[1] + sp[2] + 2] = "."
        /\ DayToken(SubSeq(s, 1, sp[1]))
        /\ MonthToken(SubSeq(s, sp[1] + 2, sp[1] + sp[2] + 1))
        /\ YearToken(SubSeq(s, sp[1] + sp[2] + 3, Len(s)))}

\* datetime.strptime(s, "%d.%m.%Y"): ok = FALSE stands for ValueError
Strptime(s) ==
    IF DateSplits(s) = {} THEN [ok |-> FALSE, date |-> NoDate]
    ELSE LET sp == CHOOSE x \in DateSplits(s) : TRUE
             dd == NumVal(FilterDigits(SubSeq(s, 1, sp[1])))
             mm == NumVal(SubSeq(s, sp[1] + 2, sp[1] + sp[2] + 1))
             yy == NumVal(SubSeq(s, sp[1] + sp[2] + 3, Len(s)))
         IN  IF ValidDate(yy, mm, dd)
             THEN [ok |-> TRUE, date |-> MkDate(yy, mm, dd)]
             ELSE [ok |-> FALSE, date |-> NoDate]

\* AfterNow with >= for >
AfterNowOrToday(parsed_date, now) == ~DateLess(parsed_date, now)

\* parsed_date > datetime.today(): the parsed value is midnight of its date
\* and today() is a moment of the current date
AfterNow(parsed_date, now) == DateLess(now, parsed_date)

BirthdaySetter(cur, new_value, now) ==
    IF ~IsStr(new_value) THEN [exc |-> "InvalidBirthdayError", value |-> cur]
    ELSE LET parsed == Strptime(Strip(new_value))
         IN  IF ~parsed.ok
             THEN [exc |-> "InvalidBirthdayError", value |-> cur]
             ELSE IF AfterNow(parsed.date, now)
             THEN [exc |-> "InvalidBirthdayError", value |-> cur]
             ELSE [exc |-> "none", value |-> parsed.date]

\* the subtypes of ValidationError
ValidationErrors ==
    {"InvalidNameError", "EmptyNameError", "InvalidPhoneError",
     "DuplicatePhoneError", "PhoneNotFoundException",
     "InvalidBirthdayError", "DuplicateBirthdayError"}

(***************************************************************************)
(* Record: a name, a list of phones and an optional birthday.  A method    *)
(* yields the exception it raises ("none" when it returns) and the record  *)
(* as it is afterwards.                                                     *)
(***************************************************************************)
NoRecord == [live |-> FALSE, name |-> None, phones |-> <<>>, birthday |-> NoDate]

\* Record.__init__: Name(name), no phones, no birthday
RecordInit(name) ==
    LET n == NameSetter(None, name)
    IN  IF n.exc # "none" THEN [exc |-> n.exc, rec |-> NoRecord]
        ELSE [exc |-> "none",
              rec |-> [live |-> TRUE, name |-> n.value, phones |-> <<>>,
                       birthday |-> NoDate]]

\* Record.name setter: self._name = Name(new_name)
RecordSetName(rec, new_name) ==
    LET n == NameSetter(None, new_name)
    IN  IF n.exc # "none" THEN [exc |-> n.exc, rec |-> rec]
        ELSE [exc |-> "none", rec |-> [rec EXCEPT !.name = n.value]]

\* Record.birthday setter
RecordSetBirthday(rec, new_birthday, now) ==
    IF new_birthday = None
    THEN [exc |-> "none", rec |-> [rec EXCEPT !.birthday = NoDate]]
    ELSE LET b == BirthdaySetter(None, new_birthday, now)
         IN  IF b.exc # "none" THEN [exc |-> b.exc, rec |-> rec]
             ELSE [exc |-> "none", rec |-> [rec EXCEPT !.birthday = b.value]]

\* Record.find_phone: the position of the first phone whose value equals
\* phone_number, 0 for None
FindPhone(phones, phone_number) ==
    IF \E i \in 1..Len(phones) : phones[i] = phone_number
    THEN CHOOSE i \in 1..Len(phones) :
            /\ phones[i] = phone_number
            /\ \A j \in 1..(i - 1) : phones[j] # phone_number
    ELSE 0

\* Record.add_phone
RecordAddPhone(rec, phone_number) ==
    LET phone == PhoneSetter(None, phone_number)
    IN  IF phone.exc # "none" THEN [exc |-> phone.exc, rec |-> rec]
        ELSE IF FindPhone(rec.phones, phone_number) # 0
        THEN [exc |-> "DuplicatePhoneError", rec |-> rec]
        ELSE [exc |-> "none",
              rec |-> [rec EXCEPT !.phones = Append(@, phone.value)]]

RemoveAt(s, i) == SubSeq(s, 1, i - 1) \o SubSeq(s, i + 1, Len(s))

\* remove_phone dropping the newest phone of the list
RecordRemovePhoneLast(rec, phone_number) ==
    LET phone == FindPhone(rec.phones, phone_number)
    IN  IF phone # 0
        THEN [exc |-> "none",
              rec |-> [rec EXCEPT !.phones = SubSeq(@, 1, Len(@) - 1)]]
        ELSE [exc |-> "PhoneNotFoundException", rec |-> rec]

\* Record.remove_phone
RecordRemovePhone(rec, phone_number) ==
    LET phone == FindPhone(rec.phones, phone_number)
    IN  IF phone # 0
        THEN [exc |-> "none",
              rec |-> [rec EXCEPT !.phones = RemoveAt(@, phone)]]
        ELSE [exc |-> "PhoneNotFoundException", rec |-> rec]

\* edit_phone validating the new number before it looks for the old one
RecordEditPhoneValidateFirst(rec, old_phone, new_phone) ==
    LET set == PhoneSetter(None, new_phone)
        phone == FindPhone(rec.phones, old_phone)
    IN  IF set.exc # "none" THEN [exc |-> set.exc, rec |-> rec]
        ELSE IF phone = 0 THEN [exc |-> "PhoneNotFoundException", rec |-> rec]
        ELSE [exc |-> "none", rec |-> [rec EXCEPT !.phones[phone] = set.value]]

\* Record.edit_phone
RecordEditPhone(rec, old_phone, new_phone) ==
    LET phone == FindPhone(rec.phones, old_phone)
    IN  IF phone = 0 THEN [exc |-> "PhoneNotFoundException", rec |-> rec]
        ELSE LET set == PhoneSetter(rec.phones[phone], new_phone)
             IN  [exc |-> set.exc,
                  rec |-> [rec EXCEPT !.phones[phone] = set.value]]

\* add_birthday without the test for a birthday that is set
RecordAddBirthdayOverwrite(rec, birthday_date, now) ==
    LET b == BirthdaySetter(None, birthday_date, now)
    IN  IF b.exc # "none" THEN [exc |-> b.exc, rec |-> rec]
        ELSE [exc |-> "none", rec |-> [rec EXCEPT !.birthday = b.value]]

\* Record.add_birthday
RecordAddBirthday(rec, birthday_date, now) ==
    IF rec.birthday # NoDate
    THEN [exc |-> "DuplicateBirthdayError", rec |-> rec]
    ELSE LET b == BirthdaySetter(None, birthday_date, now)
         IN  IF b.exc # "none" THEN [exc |-> b.exc, rec |-> rec]
             ELSE [exc |-> "none", rec |-> [rec EXCEPT !.birthday = b.value]]

(***************************************************************************)
(* AddressBook: the dict data in insertion order, a sequence of entries    *)
(* [key, rid] where rid names the Record object on the heap.               *)
(***************************************************************************)
RecIds == 1..MaxRecords

Keys(bk) == {bk[i].key : i \in 1..Len(bk)}

KeyIndex(bk, name) == CHOOSE i \in 1..Len(bk) : bk[i].key = name

\* add_record storing the record whatever the keys are
BookAddRecordOverwrite(bk, hp, rid) ==
    IF hp[rid].name \in Keys(bk)
    THEN [exc |-> "none",
          book |-> [bk EXCEPT ![KeyIndex(bk, hp[rid].name)].rid = rid]]
    ELSE [exc |-> "none",
          book |-> Append(bk, [key |-> hp[rid].name, rid |-> rid])]

\* add_record keyed by the Name object in place of its value
BookAddRecordKeyedByField(bk, hp, rid) ==
    IF <<hp[rid].name>> \in Keys(bk)
    THEN [exc |-> "DuplicateRecordException", book |-> bk]
    ELSE [exc |-> "none",
          book |-> Append(bk, [key |-> <<hp[rid].name>>, rid |-> rid])]

\* AddressBook.add_record
BookAddRecord(bk, hp, rid) ==
    IF hp[rid].name \in Keys(bk)
    THEN [exc |-> "DuplicateRecordException", book |-> bk]
    ELSE [exc |-> "none",
          book |-> Append(bk, [key |-> hp[rid].name, rid |-> rid])]

\* AddressBook.find: the Record object, 0 for None
BookFind(bk, name) ==
    IF name \in Keys(bk) THEN bk[KeyIndex(bk, name)].rid ELSE 0

\* delete removing the oldest entry of the book
BookDeleteFirst(bk, name) ==
    IF name \notin Keys(bk)
    THEN [exc |-> "RecordNotFoundException", book |-> bk]
    ELSE [exc |-> "none", book |-> Tail(bk)]

\* AddressBook.delete
BookDelete(bk, name) ==
    IF name \notin Keys(bk)
    THEN [exc |-> "RecordNotFoundException", book |-> bk]
    ELSE [exc |-> "none", book |-> RemoveAt(bk, KeyIndex(bk, name))]

\* days_until_monday = (7 - congratulation_date.weekday()) + 1
DaysUntilMonday(weekday) == (7 - weekday) + 1

\* the congratulation date of a birthday re-anchored to birthday_this_year
\* the congratulation date left on the birthday whatever day it is
CongratulationDateUnmoved(birthday_this_year) == birthday_this_year

CongratulationDate(birthday_this_year) ==
    IF Weekday(birthday_this_year) >= 5
    THEN AddDays(birthday_this_year, DaysUntilMonday(Weekday(birthday_this_year)))
    ELSE birthday_this_year

\* the birthday of one record re-anchored to the year of today, or to the
\* next year when that day is before today; ok = FALSE stands for the
\* ValueError of date.replace
BirthdayThisYear(birthday, now) ==
    LET this == ReplaceYear(birthday, now.y)
    IN  IF ~this.ok THEN this
        ELSE IF DateLess(this.date, now) THEN ReplaceYear(this.date, now.y + 1)
        ELSE this

\* the loop of AddressBook.get_upcoming_birthdays over the entries i..Len(bk),
\* upcoming_birthdays being the list built so far
RECURSIVE UpcomingLoop(_, _, _, _, _)
UpcomingLoop(bk, hp, now, i, upcoming_birthdays) ==
    IF i > Len(bk) THEN [exc |-> "none", ret |-> upcoming_birthdays]
    ELSE LET record == hp[bk[i].rid]
         IN  IF record.birthday = NoDate
             THEN UpcomingLoop(bk, hp, now, i + 1, upcoming_birthdays)
             ELSE LET anchored == BirthdayThisYear(record.birthday, now)
                  IN  IF ~anchored.ok THEN [exc |-> "ValueError", ret |-> <<>>]
                      ELSE LET delta_days == DaysBetween(anchored.date, now)
                           IN  IF 0 <= delta_days /\ delta_days <= 7
                               THEN UpcomingLoop(bk, hp, now, i + 1,
                                      Append(upcoming_birthdays,
                                        [name |-> record.name,
                                         congratulation_date |->
                                           Strftime(CongratulationDate(anchored.date))]))
                               ELSE UpcomingLoop(bk, hp, now, i + 1, upcoming_birthdays)

\* a list of upcoming birthdays put in the order of its congratulation dates
RECURSIVE SortByDate(_)
SortByDate(s) ==
    IF s = <<>> THEN <<>>
    ELSE LET rest == SortByDate(Tail(s))
             before == SelectSeq(rest, LAMBDA e :
                          DateLess(DateAt(e.congratulation_date),
                                   DateAt(Head(s).congratulation_date)))
             after == SelectSeq(rest, LAMBDA e :
                          ~DateLess(DateAt(e.congratulation_date),
                                    DateAt(Head(s).congratulation_date)))
         IN  before \o <<Head(s)>> \o after

\* get_upcoming_birthdays returning its list in the order of the dates
GetUpcomingBirthdaysByDate(bk, hp, now) ==
    LET r == UpcomingLoop(bk, hp, now, 1, <<>>)
    IN  [exc |-> r.exc, ret |-> SortByDate(r.ret)]

\* AddressBook.get_upcoming_birthdays
GetUpcomingBirthdays(bk, hp, now) == UpcomingLoop(bk, hp, now, 1, <<>>)

(***************************************************************************)
(* State.  today is the current date and ticks the days gone by; heap      *)
(* holds the Record objects; book is the data of the AddressBook; field is *)
(* one Field object on its own; last is the report of the last call; disk  *)
(* is the storage file; session is the process at the command prompt:      *)
(* "off" when there is none, "main" for main(), "cli" for CLIHandler.run() *)
(* and "crashed" when an exception has ended it.                            *)
(***************************************************************************)
NoField == [kind |-> "none", str |-> None, date |-> NoDate]

\* the storage file does not exist
NoFile == [exists |-> FALSE, keys |-> <<>>, objects |-> <<>>]

Report(op, rid, args, exc, ret) ==
    [op |-> op, rid |-> rid, args |-> args, exc |-> exc, ret |-> ret]

InitAt(starts) ==
    /\ today \in starts
    /\ ticks = 0
    /\ heap = [r \in RecIds |-> NoRecord]
    /\ book = <<>>
    /\ field = NoField
    /\ last = Report("init", 0, <<>>, "none", <<>>)
    /\ disk = NoFile
    /\ session = "off"

\* midnight passes
Tick ==
    /\ ticks < MaxTicks
    /\ today' = NextDay(today)
    /\ ticks' = ticks + 1
    /\ last' = Report("tick", 0, <<>>, "none", <<>>)
    /\ UNCHANGED <<heap, book, field, disk, session>>

(***************************************************************************)
(* A Field on its own: Name(s), Phone(s), Birthday(s) and field.value = s. *)
(***************************************************************************)
FieldSetter(kind, cur, new_value) ==
    IF kind = "Name"
    THEN LET r == NameSetter(cur.str, new_value)
         IN  [exc |-> r.exc, obj |-> [kind |-> kind, str |-> r.value, date |-> NoDate]]
    ELSE IF kind = "Phone"
    THEN LET r == PhoneSetter(cur.str, new_value)
         IN  [exc |-> r.exc, obj |-> [kind |-> kind, str |-> r.value, date |-> NoDate]]
    ELSE LET r == BirthdaySetter(cur.date, new_value, today)
         IN  [exc |-> r.exc, obj |-> [kind |-> kind, str |-> None, date |-> r.value]]

\* Field.__init__: self._value = None; self.value = value
FieldInit(kind, value) ==
    LET r == FieldSetter(kind, NoField, value)
    IN  /\ field' = IF r.exc = "none" THEN r.obj ELSE field
        /\ last' = Report(kind, 0, <<value>>, r.exc, <<>>)
        /\ UNCHANGED <<today, ticks, heap, book, disk, session>>

\* field.value = new_value on the Field that exists
FieldAssign(new_value) ==
    /\ field.kind # "none"
    /\ LET r == FieldSetter(field.kind, field, new_value)
       IN  /\ field' = r.obj
           /\ last' = Report("assign", 0, <<new_value>>, r.exc, <<>>)
    /\ UNCHANGED <<today, ticks, heap, book, disk, session>>

(***************************************************************************)
(* Calls on Record objects.                                                *)
(***************************************************************************)
InBook(rid) == \E i \in 1..Len(book) : book[i].rid = rid

\* record = Record(name), the variable naming an object the book does not hold
NewRecord(rid, name) ==
    /\ ~InBook(rid)
    /\ LET r == RecordInit(name)
       IN  /\ heap' = IF r.exc = "none" THEN [heap EXCEPT ![rid] = r.rec] ELSE heap
           /\ last' = Report("Record", rid, <<name>>, r.exc, <<>>)
    /\ UNCHANGED <<today, ticks, book, field, disk, session>>

\* the name setter that also moves the book's key to the new name
SetNameRekey(rid, new_name) ==
    /\ heap[rid].live
    /\ LET r == RecordSetName(heap[rid], new_name)
       IN  /\ heap' = [heap EXCEPT ![rid] = r.rec]
           /\ book' = [i \in 1..Len(book) |->
                          IF book[i].rid = rid
                          THEN [key |-> r.rec.name, rid |-> rid]
                          ELSE book[i]]
           /\ last' = Report("name", rid, <<new_name>>, r.exc, <<>>)
    /\ UNCHANGED <<today, ticks, field, disk, session>>

SetName(rid, new_name) ==
    /\ heap[rid].live
    /\ LET r == RecordSetName(heap[rid], new_name)
       IN  /\ heap' = [heap EXCEPT ![rid] = r.rec]
           /\ last' = Report("name", rid, <<new_name>>, r.exc, <<>>)
    /\ UNCHANGED <<today, ticks, book, field, disk, session>>

SetBirthday(rid, new_birthday) ==
    /\ heap[rid].live
    /\ LET r == RecordSetBirthday(heap[rid], new_birthday, today)
       IN  /\ heap' = [heap EXCEPT ![rid] = r.rec]
           /\ last' = Report("birthday", rid, <<new_birthday>>, r.exc, <<>>)
    /\ UNCHANGED <<today, ticks, book, field, disk, session>>

AddPhone(rid, phone_number) ==
    /\ heap[rid].live
    /\ Len(heap[rid].phones) < MaxPhones
    /\ LET r == RecordAddPhone(heap[rid], phone_number)
       IN  /\ heap' = [heap EXCEPT ![rid] = r.rec]
           /\ last' = Report("add_phone", rid, <<phone_number>>, r.exc, <<>>)
    /\ UNCHANGED <<today, ticks, book, field, disk, session>>

RemovePhone(rid, phone_number) ==
    /\ heap[rid].live
    /\ LET r == RecordRemovePhone(heap[rid], phone_number)
       IN  /\ heap' = [heap EXCEPT ![rid] = r.rec]
           /\ last' = Report("remove_phone", rid, <<phone_number>>, r.exc, <<>>)
    /\ UNCHANGED <<today, ticks, book, field, disk, session>>

EditPhone(rid, old_phone, new_phone) ==
    /\ heap[rid].live
    /\ LET r == RecordEditPhone(heap[rid], old_phone, new_phone)
       IN  /\ heap' = [heap EXCEPT ![rid] = r.rec]
           /\ last' = Report("edit_phone", rid, <<old_phone, new_phone>>, r.exc, <<>>)
    /\ UNCHANGED <<today, ticks, book, field, disk, session>>

AddBirthday(rid, birthday_date) ==
    /\ heap[rid].live
    /\ LET r == RecordAddBirthday(heap[rid], birthday_date, today)
       IN  /\ heap' = [heap EXCEPT ![rid] = r.rec]
           /\ last' = Report("add_birthday", rid, <<birthday_date>>, r.exc, <<>>)
    /\ UNCHANGED <<today, ticks, book, field, disk, session>>

(***************************************************************************)
(* Calls on the AddressBook.                                               *)
(***************************************************************************)
AddRecord(rid) ==
    /\ heap[rid].live
    /\ LET r == BookAddRecord(book, heap, rid)
       IN  /\ book' = r.book
           /\ last' = Report("add_record", rid, <<heap[rid].name>>, r.exc, <<>>)
    /\ UNCHANGED <<today, ticks, heap, field, disk, session>>

Find(name) ==
    /\ last' = Report("find", BookFind(book, name), <<name>>, "none", <<>>)
    /\ UNCHANGED <<today, ticks, heap, book, field, disk, session>>

Delete(name) ==
    /\ LET r == BookDelete(book, name)
       IN  /\ book' = r.book
           /\ last' = Report("delete", 0, <<name>>, r.exc, <<>>)
    /\ UNCHANGED <<today, ticks, heap, field, disk, session>>

UpcomingBirthdays ==
    /\ LET r == GetUpcomingBirthdays(book, heap, today)
       IN  last' = Report("get_upcoming_birthdays", 0, <<>>, r.exc, r.ret)
    /\ UNCHANGED <<today, ticks, heap, book, field, disk, session>>

(***************************************************************************)
(* Persistence: pickle.dump writes the keys of the book in their order     *)
(* and every Record object once, in the order the keys reach it;           *)
(* pickle.load builds new objects from the file.                            *)
(***************************************************************************)
\* the Record objects of a book in the order the entries i.. reach them
RECURSIVE ObjectOrder(_, _, _)
ObjectOrder(bk, i, seen) ==
    IF i > Len(bk) THEN seen
    ELSE IF \E j \in 1..Len(seen) : seen[j] = bk[i].rid
    THEN ObjectOrder(bk, i + 1, seen)
    ELSE ObjectOrder(bk, i + 1, Append(seen, bk[i].rid))

RefOf(order, rid) == CHOOSE j \in 1..Len(order) : order[j] = rid

\* pickle.dump(book, f)
PickleDump(bk, hp) ==
    LET order == ObjectOrder(bk, 1, <<>>)
    IN  [exists |-> TRUE,
         keys |-> [i \in 1..Len(bk) |->
                     [key |-> bk[i].key, ref |-> RefOf(order, bk[i].rid)]],
         objects |-> [j \in 1..Len(order) |-> hp[order[j]]]]

\* pickle.load reading the keys of the file from its end
PickleLoadReversed(file) ==
    [book |-> [i \in 1..Len(file.keys) |->
                 [key |-> file.keys[Len(file.keys) + 1 - i].key,
                  rid |-> file.keys[Len(file.keys) + 1 - i].ref]],
     heap |-> [r \in RecIds |->
                 IF r <= Len(file.objects) THEN file.objects[r] ELSE NoRecord]]

\* pickle.load(f)
PickleLoad(file) ==
    [book |-> [i \in 1..Len(file.keys) |->
                 [key |-> file.keys[i].key, rid |-> file.keys[i].ref]],
     heap |-> [r \in RecIds |->
                 IF r <= Len(file.objects) THEN file.objects[r] ELSE NoRecord]]

\* load_data: the book of the file, AddressBook() on FileNotFoundError
LoadData(file) ==
    IF file.exists THEN PickleLoad(file)
    ELSE [book |-> <<>>, heap |-> [r \in RecIds |-> NoRecord]]

\* save_data(book)
Save ==
    /\ disk' = PickleDump(book, heap)
    /\ last' = Report("save_data", 0, <<>>, "none", <<>>)
    /\ UNCHANGED <<today, ticks, heap, book, field, session>>

\* book = load_data()
Load ==
    /\ book' = LoadData(disk).book
    /\ heap' = LoadData(disk).heap
    /\ last' = Report("load_data", 0, <<>>, "none", <<>>)
    /\ UNCHANGED <<today, ticks, field, disk, session>>

(***************************************************************************)
(* The command prompt.  A line is a string; a reply is the text that is    *)
(* printed, with the values it shows.                                      *)
(***************************************************************************)
UpperCase ==
    <<"A", "B", "C", "D", "E", "F", "G", "H", "I", "J", "K", "L", "M",
      "N", "O", "P", "Q", "R", "S", "T", "U", "V", "W", "X", "Y", "Z">>

LowerCase ==
    <<"a", "b", "c", "d", "e", "f", "g", "h", "i", "j", "k", "l", "m",
      "n", "o", "p", "q", "r", "s", "t", "u", "v", "w", "x", "y", "z">>

LowerChar(c) ==
    IF \E i \in 1..Len(UpperCase) : UpperCase[i] = c
    THEN LowerCase[CHOOSE i \in 1..Len(UpperCase) : UpperCase[i] = c]
    ELSE c

\* str.lower()
Lower(s) == [i \in 1..Len(s) |-> LowerChar(s[i])]

\* the number of characters of s before its first whitespace
RECURSIVE TokenLen(_)
TokenLen(s) ==
    IF s = <<>> \/ Head(s) \in Whitespace THEN 0 ELSE 1 + TokenLen(Tail(s))

\* str.split()
RECURSIVE Split(_)
Split(s) ==
    LET t == LStrip(s)
    IN  IF t = <<>> THEN <<>>
        ELSE <<SubSeq(t, 1, TokenLen(t))>> \o Split(SubSeq(t, TokenLen(t) + 1, Len(t)))

\* the members of the enumeration Commands in their order
Commands ==
    <<
      [id |-> "ADD",
       name |-> <<"A", "D", "D">>,
       command_name |-> <<"a", "d", "d">>],
      [id |-> "CHANGE",
       name |-> <<"C", "H", "A", "N", "G", "E">>,
       command_name |-> <<"c", "h", "a", "n", "g", "e">>],
      [id |-> "PHONE",
       name |-> <<"P", "H", "O", "N", "E">>,
       command_name |-> <<"p", "h", "o", "n", "e">>],
      [id |-> "ADD_BIRTHDAY",
       name |-> <<"A", "D", "D", "_", "B", "I", "R", "T", "H", "D", "A", "Y">>,
       command_name |-> <<"a", "d", "d", "-", "b", "i", "r", "t", "h", "d", "a", "y">>],
      [id |-> "SHOW_BIRTHDAY",
       name |-> <<"S", "H", "O", "W", "_", "B", "I", "R", "T", "H", "D", "A", "Y">>,
       command_name |-> <<"s", "h", "o", "w", "-", "b", "i", "r", "t", "h", "d", "a", "y">>],
      [id |-> "ALL",
       name |-> <<"A", "L", "L">>,
       command_name |-> <<"a", "l", "l">>],
      [id |-> "BIRTHDAYS",
       name |-> <<"B", "I", "R", "T", "H", "D", "A", "Y", "S">>,
       command_name |-> <<"b", "i", "r", "t", "h", "d", "a", "y", "s">>],
      [id |-> "HELLO",
       name |-> <<"H", "E", "L", "L", "O">>,
       command_name |-> <<"h", "e", "l", "l", "o">>],
      [id |-> "EXIT",
       name |-> <<"E", "X", "I", "T">>,
       command_name |-> <<"e", "x", "i", "t">>],
      [id |-> "HELP",
       name |-> <<"H", "E", "L", "P">>,
       command_name |-> <<"h", "e", "l", "p">>]
    >>

\* the members main() has a handler for and those CLIHandler has one for
MainHandlers ==
    {"ADD", "CHANGE", "PHONE", "ALL", "ADD_BIRTHDAY", "SHOW_BIRTHDAY",
     "BIRTHDAYS", "HELLO"}

CliHandlers ==
    {"ADD", "CHANGE", "PHONE", "ALL", "ADD_BIRTHDAY", "SHOW_BIRTHDAY",
     "BIRTHDAYS", "HELLO", "EXIT", "HELP"}

\* command_handlers of main(): the keys are Commands.X.name.lower()
MainLookup(command) ==
    LET hit == {i \in 1..Len(Commands) :
                  /\ Commands[i].id \in MainHandlers
                  /\ Lower(Commands[i].name) = command}
    IN  IF hit = {} THEN "none" ELSE Commands[CHOOSE i \in hit : TRUE].id

\* _command_handlers of CLIHandler: the keys are Commands.X.value.command_name
CliLookup(command) ==
    LET hit == {i \in 1..Len(Commands) :
                  /\ Commands[i].id \in CliHandlers
                  /\ Commands[i].command_name = command}
    IN  IF hit = {} THEN "none" ELSE Commands[CHOOSE i \in hit : TRUE].id

CloseWord == <<"c", "l", "o", "s", "e">>

ExitWord == <<"e", "x", "i", "t">>

\* "Give me name and phone please."
GiveMeNameAndPhone ==
    <<"G", "i", "v", "e", " ", "m", "e", " ", "n", "a", "m", "e", " ",
    "a", "n", "d", " ", "p", "h", "o", "n", "e", " ", "p", "l", "e", "a",
    "s", "e", ".">>

Reply(text, data) == [text |-> text, data |-> data]

\* the outcome of a handler: the exception it raises, the book and the heap
\* as they are afterwards and the reply it returns
Outcome(exc, bk, hp, reply) == [exc |-> exc, book |-> bk, heap |-> hp, reply |-> reply]

Raise(exc, bk, hp) == Outcome(exc, bk, hp, Reply("", <<>>))

AddressBookExceptions ==
    ValidationErrors \cup {"RecordNotFoundException", "DuplicateRecordException"}

\* the decorator catching AddressBookException only
InputErrorBookOnly(r) ==
    IF r.exc \in AddressBookExceptions
    THEN Outcome("none", r.book, r.heap, Reply("str(e)", <<r.exc>>))
    ELSE r

\* the decorator input_error
InputError(r) ==
    IF r.exc \in AddressBookExceptions
    THEN Outcome("none", r.book, r.heap, Reply("str(e)", <<r.exc>>))
    ELSE IF r.exc = "ValueError"
    THEN Outcome("none", r.book, r.heap, Reply("Give me name and phone please.", <<>>))
    ELSE IF r.exc = "KeyError"
    THEN Outcome("none", r.book, r.heap, Reply("Contact not found.", <<>>))
    ELSE IF r.exc = "IndexError"
    THEN Outcome("none", r.book, r.heap,
                 Reply("Invalid number of arguments. Please check command format.", <<>>))
    ELSE r

\* the Record object a new contact gets: the first one the book does not
\* hold, 0 when all are in the book
FreeRid(bk) ==
    LET free == {rid \in RecIds : \A i \in 1..Len(bk) : bk[i].rid # rid}
    IN  IF free = {} THEN 0 ELSE CHOOSE rid \in free : \A other \in free : rid <= other

\* the contacts of a book in its order, as str(book) shows them
Shown(bk, hp) == [i \in 1..Len(bk) |-> hp[bk[i].rid]]

\* add_contact putting the new Record into the book before its phone
AddContactRecordFirst(bk, hp, args) ==
    IF Len(args) < 2 THEN Raise("ValueError", bk, hp)
    ELSE LET name == args[1]
             phone == args[2]
             record == BookFind(bk, name)
         IN  IF record = 0
             THEN IF FreeRid(bk) = 0 THEN Raise("bound", bk, hp)
                  ELSE LET rid == FreeRid(bk)
                           new == RecordInit(name)
                           added == BookAddRecord(bk, [hp EXCEPT ![rid] = new.rec], rid)
                           with == RecordAddPhone(new.rec, phone)
                       IN  IF new.exc # "none" THEN Raise(new.exc, bk, hp)
                           ELSE IF added.exc # "none" THEN Raise(added.exc, bk, hp)
                           ELSE IF with.exc # "none"
                           THEN Raise(with.exc, added.book, [hp EXCEPT ![rid] = new.rec])
                           ELSE Outcome("none", added.book, [hp EXCEPT ![rid] = with.rec],
                                        Reply("Contact added.", <<>>))
             ELSE IF Len(hp[record].phones) >= MaxPhones THEN Raise("bound", bk, hp)
             ELSE LET with == RecordAddPhone(hp[record], phone)
                  IN  IF with.exc # "none" THEN Raise(with.exc, bk, hp)
                      ELSE Outcome("none", bk, [hp EXCEPT ![record] = with.rec],
                                   Reply("Contact updated.", <<>>))

\* the body of add_contact and of CLIHandler._handle_add
AddContact(bk, hp, args) ==
    IF Len(args) < 2 THEN Raise("ValueError", bk, hp)
    ELSE LET name == args[1]
             phone == args[2]
             record == BookFind(bk, name)
         IN  IF record = 0
             THEN IF FreeRid(bk) = 0 THEN Raise("bound", bk, hp)
                  ELSE LET rid == FreeRid(bk)
                           new == RecordInit(name)
                           with == RecordAddPhone(new.rec, phone)
                           added == BookAddRecord(bk, [hp EXCEPT ![rid] = with.rec], rid)
                       IN  IF new.exc # "none" THEN Raise(new.exc, bk, hp)
                           ELSE IF with.exc # "none" THEN Raise(with.exc, bk, hp)
                           ELSE IF added.exc # "none" THEN Raise(added.exc, bk, hp)
                           ELSE Outcome("none", added.book, [hp EXCEPT ![rid] = with.rec],
                                        Reply("Contact added.", <<>>))
             ELSE IF Len(hp[record].phones) >= MaxPhones THEN Raise("bound", bk, hp)
             ELSE LET with == RecordAddPhone(hp[record], phone)
                  IN  IF with.exc # "none" THEN Raise(with.exc, bk, hp)
                      ELSE Outcome("none", bk, [hp EXCEPT ![record] = with.rec],
                                   Reply("Contact updated.", <<>>))

\* the body of change_contact and of CLIHandler._handle_change
ChangeContact(bk, hp, args) ==
    IF Len(args) < 3 THEN Raise("ValueError", bk, hp)
    ELSE LET record == BookFind(bk, args[1])
         IN  IF record = 0 THEN Raise("RecordNotFoundException", bk, hp)
             ELSE LET edited == RecordEditPhone(hp[record], args[2], args[3])
                  IN  IF edited.exc # "none" THEN Raise(edited.exc, bk, hp)
                      ELSE Outcome("none", bk, [hp EXCEPT ![record] = edited.rec],
                                   Reply("Contact updated.", <<>>))

\* the body of show_phone and of CLIHandler._handle_phone
ShowPhone(bk, hp, args) ==
    IF Len(args) < 1 THEN Raise("ValueError", bk, hp)
    ELSE LET record == BookFind(bk, args[1])
         IN  IF record = 0 THEN Raise("RecordNotFoundException", bk, hp)
             ELSE Outcome("none", bk, hp, Reply("phones", hp[record].phones))

\* add_birthday making a contact of a name the book does not hold
AddBirthdayCommandCreates(bk, hp, args, now) ==
    IF Len(args) < 2 THEN Raise("ValueError", bk, hp)
    ELSE LET record == BookFind(bk, args[1])
         IN  IF record = 0
             THEN IF FreeRid(bk) = 0 THEN Raise("bound", bk, hp)
                  ELSE LET rid == FreeRid(bk)
                           new == RecordInit(args[1])
                       IN  IF new.exc # "none" THEN Raise(new.exc, bk, hp)
                           ELSE Outcome("none",
                                        Append(bk, [key |-> new.rec.name, rid |-> rid]),
                                        [hp EXCEPT ![rid] = new.rec],
                                        Reply("Birthday added.", <<>>))
             ELSE LET added == RecordAddBirthday(hp[record], args[2], now)
                  IN  IF added.exc # "none" THEN Raise(added.exc, bk, hp)
                      ELSE Outcome("none", bk, [hp EXCEPT ![record] = added.rec],
                                   Reply("Birthday added.", <<>>))

\* the body of add_birthday and of CLIHandler._handle_add_birthday
AddBirthdayCommand(bk, hp, args, now) ==
    IF Len(args) < 2 THEN Raise("ValueError", bk, hp)
    ELSE LET record == BookFind(bk, args[1])
         IN  IF record = 0 THEN Raise("RecordNotFoundException", bk, hp)
             ELSE LET added == RecordAddBirthday(hp[record], args[2], now)
                  IN  IF added.exc # "none" THEN Raise(added.exc, bk, hp)
                      ELSE Outcome("none", bk, [hp EXCEPT ![record] = added.rec],
                                   Reply("Birthday added.", <<>>))

\* the body of show_birthday and of CLIHandler._handle_show_birthday, which
\* differ in the text for a contact without a birthday
ShowBirthday(bk, hp, args, no_birthday) ==
    IF Len(args) < 1 THEN Raise("ValueError", bk, hp)
    ELSE LET record == BookFind(bk, args[1])
         IN  IF record = 0 THEN Raise("RecordNotFoundException", bk, hp)
             ELSE IF hp[record].birthday = NoDate
             THEN Outcome("none", bk, hp, Reply(no_birthday, <<>>))
             ELSE Outcome("none", bk, hp, Reply("birthday", Strftime(hp[record].birthday)))

\* the body of birthdays and of CLIHandler._handle_birthdays
Birthdays(bk, hp, now) ==
    LET bd_list == GetUpcomingBirthdays(bk, hp, now)
    IN  IF bd_list.exc # "none" THEN Raise(bd_list.exc, bk, hp)
        ELSE IF bd_list.ret = <<>>
        THEN Outcome("none", bk, hp, Reply("No upcoming birthdays.", <<>>))
        ELSE Outcome("none", bk, hp, Reply("birthdays", bd_list.ret))

\* show_all and CLIHandler._handle_all, printed with AddressBook.__str__
ShowAll(bk, hp) ==
    IF bk = <<>> THEN Outcome("none", bk, hp, Reply("Address book is empty", <<>>))
    ELSE Outcome("none", bk, hp, Reply("book", Shown(bk, hp)))

\* Commands.get_all_commands(): the help message of every member, in order
GetAllCommands == [i \in 1..Len(Commands) |-> Commands[i].id]

InvalidCommand(bk, hp) ==
    Outcome("none", bk, hp, Reply("Invalid command. Available commands:", GetAllCommands))

\* command, *args = parse_input(user_input) in main(): parse_input is
\* decorated, so for a line without a word it returns the text for a
\* ValueError, and the assignment takes that text apart into its characters
MainParse(user_input) ==
    LET tokens == Split(user_input)
    IN  IF tokens = <<>>
        THEN [command |-> <<Head(GiveMeNameAndPhone)>>,
              args |-> [i \in 1..(Len(GiveMeNameAndPhone) - 1) |->
                          <<GiveMeNameAndPhone[i + 1]>>]]
        ELSE [command |-> Lower(Head(tokens)), args |-> Tail(tokens)]

\* one turn of the loop of main() on a line: the handler chosen, its outcome
\* and whether the loop is left
MainTurn(bk, hp, now, user_input) ==
    LET command == MainParse(user_input).command
        args == MainParse(user_input).args
        handler == MainLookup(command)
    IN  IF command \in {CloseWord, ExitWord}
        THEN [handler |-> "EXIT", leave |-> TRUE,
              out |-> Outcome("none", bk, hp, Reply("Good bye!", <<>>))]
        ELSE [handler |-> handler, leave |-> FALSE,
              out |->
                IF handler = "ADD" THEN InputError(AddContact(bk, hp, args))
                ELSE IF handler = "CHANGE" THEN InputError(ChangeContact(bk, hp, args))
                ELSE IF handler = "PHONE" THEN InputError(ShowPhone(bk, hp, args))
                ELSE IF handler = "ALL" THEN ShowAll(bk, hp)
                ELSE IF handler = "ADD_BIRTHDAY"
                THEN InputError(AddBirthdayCommand(bk, hp, args, now))
                ELSE IF handler = "SHOW_BIRTHDAY"
                THEN InputError(ShowBirthday(bk, hp, args,
                                             "There is no birthday recorded yet."))
                ELSE IF handler = "BIRTHDAYS" THEN InputError(Birthdays(bk, hp, now))
                ELSE IF handler = "HELLO"
                THEN Outcome("none", bk, hp, Reply("How can I help you?", <<>>))
                ELSE InvalidCommand(bk, hp)]

\* CLIHandler.handle_command on a line: _parse_input is decorated, and
\* command, args = ... of the text it returns for a line without a word
\* raises ValueError, the text not being 2 characters long
CliTurn(bk, hp, now, user_input) ==
    LET tokens == Split(user_input)
        parsed == IF tokens = <<>> THEN <<>> ELSE Lower(Head(tokens))
        args == IF tokens = <<>> THEN <<>> ELSE Tail(tokens)
        command == IF parsed = CloseWord THEN ExitWord ELSE parsed
        handler == CliLookup(command)
    IN  IF tokens = <<>> /\ Len(GiveMeNameAndPhone) # 2
        THEN [handler |-> "none", leave |-> FALSE, out |-> Raise("ValueError", bk, hp)]
        ELSE [handler |-> handler, leave |-> handler = "EXIT",
              out |->
                IF handler = "ADD" THEN InputError(AddContact(bk, hp, args))
                ELSE IF handler = "CHANGE" THEN InputError(ChangeContact(bk, hp, args))
                ELSE IF handler = "PHONE" THEN InputError(ShowPhone(bk, hp, args))
                ELSE IF handler = "ALL" THEN ShowAll(bk, hp)
                ELSE IF handler = "ADD_BIRTHDAY"
                THEN InputError(AddBirthdayCommand(bk, hp, args, now))
                ELSE IF handler = "SHOW_BIRTHDAY"
                THEN InputError(ShowBirthday(bk, hp, args,
                                             "No birthday set for this contact."))
                ELSE IF handler = "BIRTHDAYS" THEN Birthdays(bk, hp, now)
                ELSE IF handler = "HELLO"
                THEN Outcome("none", bk, hp, Reply("How can I help you?", <<>>))
                ELSE IF handler = "EXIT"
                THEN Outcome("none", bk, hp, Reply("Good bye!", <<>>))
                ELSE IF handler = "HELP"
                THEN Outcome("none", bk, hp, Reply("get_all_commands", GetAllCommands))
                ELSE InvalidCommand(bk, hp)]

\* what a turn leaves in the variables: an exception that leaves the handler
\* ends the process, a turn that leaves the loop ends it in good order
Turn(op, user_input, turn) ==
    /\ turn.out.exc # "bound"
    /\ book' = turn.out.book
    /\ heap' = turn.out.heap
    /\ session' = IF turn.out.exc # "none" THEN "crashed"
                  ELSE IF turn.leave THEN "off"
                  ELSE session
    /\ last' = Report(op, 0, <<user_input>>, turn.out.exc,
                      [handler |-> turn.handler, reply |-> turn.out.reply])
    /\ UNCHANGED <<today, ticks, field, disk>>

\* python main.py: book = load_data()
MainStart ==
    /\ session \in {"off", "crashed"}
    /\ session' = "main"
    /\ book' = LoadData(disk).book
    /\ heap' = LoadData(disk).heap
    /\ last' = Report("main", 0, <<>>, "none", <<>>)
    /\ UNCHANGED <<today, ticks, field, disk>>

\* a line at the prompt of main()
MainLine(user_input) ==
    /\ session = "main"
    /\ \E turn \in {MainTurn(book, heap, today, user_input)} :
          Turn("main_line", user_input, turn)

\* CLIHandler(AddressBook()).run()
CliStart ==
    /\ session \in {"off", "crashed"}
    /\ session' = "cli"
    /\ book' = <<>>
    /\ heap' = [r \in RecIds |-> NoRecord]
    /\ last' = Report("cli", 0, <<>>, "none", <<>>)
    /\ UNCHANGED <<today, ticks, field, disk>>

\* a line at the prompt of CLIHandler.run()
CliLine(user_input) ==
    /\ session = "cli"
    /\ \E turn \in {CliTurn(book, heap, today, user_input)} :
          Turn("cli_line", user_input, turn)

(***************************************************************************)
(* Inputs of the calls.                                                    *)
(***************************************************************************)
SeqsUpTo(S, n) == UNION {[1..k -> S] : k \in 0..n}

\* every string over four characters of the classes the name pattern tells
\* apart, and strings with other whitespace, other letters and a non-string
NameAlphabet == {"A", "1", " ", "-"}

NameSamples ==
    {<<"A", "l", "\n">>,
     <<" ", "A", "l">>,
     <<"A", "l", "\t">>,
     <<"A", "\t", "b">>,
     <<"B", "o">>,
     <<"A", "l", "-", "B", "o">>,
     <<"A", "l", "-", "-", "B", "o">>,
     <<"A", "\n">>,
     None}

NameInputs == SeqsUpTo(NameAlphabet, MaxNameLen) \cup NameSamples

\* the characters m..n of s that exist
Slice(s, m, n) ==
    IF m > Len(s) THEN <<>>
    ELSE SubSeq(s, m, IF n > Len(s) THEN Len(s) ELSE n)

RECURSIVE Repeat(_, _)
Repeat(c, n) == IF n = 0 THEN <<>> ELSE <<c>> \o Repeat(c, n - 1)

PhoneCores ==
    {<<"1", "2", "3", "4", "5", "6", "7", "8", "9", "0">>,
     <<"0", "9", "8", "7", "6", "5", "4", "3", "2", "1">>,
     <<"1", "2", "3", "4", "5", "6", "7", "8", "9">>,
     <<"1", "2", "3", "4", "5", "6", "7", "8", "9", "0", "1">>,
     <<"a", "b", "c">>}

\* a digit string written plainly, with hyphens, with parentheses and
\* spaces, with a plus sign in front, with a letter behind
Decorate(core, style) ==
    LET a == Slice(core, 1, 3)
        b == Slice(core, 4, 6)
        c == Slice(core, 7, Len(core))
    IN  IF style = "hyphens" THEN a \o <<"-">> \o b \o <<"-">> \o c
        ELSE IF style = "parens" THEN <<"(">> \o a \o <<")", " ">> \o b \o <<" ">> \o c
        ELSE IF style = "plus" THEN <<"+">> \o core
        ELSE IF style = "letter" THEN core \o <<"x">>
        ELSE core

PhoneStyles == {"plain", "hyphens", "parens", "plus", "letter"}

PhoneInputs ==
    {Decorate(core, style) :
        core \in PhoneCores \cup {Repeat("7", k) : k \in 0..MaxPhoneInputLen},
        style \in PhoneStyles}
    \cup {None}

\* the day the clock of the field specifications starts on: Wed 28.02.2024
FieldStart == MkDate(2024, 2, 28)

\* the days the clock can show, the day after them, and days long past
BirthdayDates ==
    {AddDays(FieldStart, k) : k \in 0..(MaxTicks + 1)}
    \cup {MkDate(1990, 1, 1), MkDate(2000, 2, 29), MkDate(1985, 12, 31),
          MkDate(1, 1, 1)}

\* a date written with or without the leading zero of its day and month
DateText(dt, pad_day, pad_month) ==
    (IF pad_day \/ dt.d >= 10 THEN Pad2(dt.d) ELSE <<DigitChars[dt.d + 1]>>)
    \o <<".">>
    \o (IF pad_month \/ dt.m >= 10 THEN Pad2(dt.m) ELSE <<DigitChars[dt.m + 1]>>)
    \o <<".">> \o Pad4(dt.y)

BirthdaySamples ==
    {<<"3", "1", ".", "0", "4", ".", "2", "0", "2", "3">>,
     <<"2", "9", ".", "0", "2", ".", "2", "0", "2", "3">>,
     <<"3", "0", ".", "0", "2", ".", "2", "0", "2", "4">>,
     <<"1", "9", "9", "0", "-", "0", "1", "-", "0", "1">>,
     <<"0", "1", ".", "0", "1", ".", "9", "0">>,
     <<>>,
     <<" ">>,
     <<"0", "1", ".", "0", "1", ".", "1", "9", "9", "0", "0">>,
     <<"3", "2", ".", "0", "1", ".", "1", "9", "9", "0">>,
     <<"0", "0", ".", "0", "1", ".", "1", "9", "9", "0">>,
     <<"0", "1", ".", "1", "3", ".", "1", "9", "9", "0">>,
     <<"0", "1", ".", "0", "0", ".", "1", "9", "9", "0">>,
     <<"0", "1", ".", "0", "1", ".", "0", "0", "0", "0">>,
     <<"0", "1", "/", "0", "1", "/", "1", "9", "9", "0">>,
     <<"0", "1", ".", " ", "1", ".", "1", "9", "9", "0">>,
     <<"0", "1", ".", "0", "1", ".", " ", "1", "9", "9", "0">>,
     <<"0", " ", "1", ".", "0", "1", ".", "1", "9", "9", "0">>,
     <<"0", "0", "1", ".", "0", "1", ".", "1", "9", "9", "0">>,
     <<"0", "1", ".", "0", "1", ".", "1", "9", "9", "0", "x">>,
     <<"a", "1", ".", "0", "1", ".", "1", "9", "9", "0">>,
     <<"0", "1", ".", "0", "1", ".", "2", "5", "2", "5">>,
     None}

BirthdayInputs ==
    {DateText(dt, pd, pm) : dt \in BirthdayDates, pd \in BOOLEAN, pm \in BOOLEAN}
    \cup {<<" ">> \o Strftime(dt) : dt \in BirthdayDates}
    \cup {Strftime(dt) \o <<" ", "\n">> : dt \in BirthdayDates}
    \cup BirthdaySamples

(***************************************************************************)
(* Specifications of one Field: Name, Phone, Birthday.                     *)
(***************************************************************************)
InitField == InitAt({FieldStart})

NextName ==
    \E s \in NameInputs :
        \/ FieldInit("Name", s)
        \/ FieldAssign(s)

SpecName == InitField /\ [][NextName]_vars

NextPhone ==
    \E s \in PhoneInputs :
        \/ FieldInit("Phone", s)
        \/ FieldAssign(s)

SpecPhone == InitField /\ [][NextPhone]_vars

NextBirthday ==
    \/ \E s \in BirthdayInputs :
        \/ FieldInit("Birthday", s)
        \/ FieldAssign(s)
    \/ Tick

SpecBirthday == InitField /\ [][NextBirthday]_vars

(***************************************************************************)
(* Specification of one Record and one Field handled on their own.         *)
(***************************************************************************)
RecordNameInputs ==
    {<<"A", "l">>,
     <<"B", "o">>,
     <<"A">>,
     <<" ">>}

RecordPhoneInputs ==
    {<<"1", "2", "3", "4", "5", "6", "7", "8", "9", "0">>,
     <<"1", "2", "3", "-", "4", "5", "6", "-", "7", "8", "9", "0">>,
     <<"0", "9", "8", "7", "6", "5", "4", "3", "2", "1">>,
     <<"1", "2", "3", "4", "5">>}

RecordBirthdayInputs ==
    {<<"0", "1", ".", "0", "1", ".", "1", "9", "9", "0">>,
     <<"2", "8", ".", "0", "2", ".", "2", "0", "2", "4">>,
     <<"2", "9", ".", "0", "2", ".", "2", "0", "2", "4">>,
     <<"3", "1", ".", "0", "4", ".", "2", "0", "2", "3">>}

RecordFieldInputs(kind) ==
    IF kind = "Name" THEN RecordNameInputs
    ELSE IF kind = "Phone" THEN RecordPhoneInputs
    ELSE RecordBirthdayInputs

FieldKinds == {"Name", "Phone", "Birthday"}

\* the Record under test
TheRecord == 1

NextRecord ==
    \/ \E s \in RecordNameInputs : NewRecord(TheRecord, s)
    \/ \E s \in RecordNameInputs : SetName(TheRecord, s)
    \/ \E s \in RecordBirthdayInputs \cup {None} : SetBirthday(TheRecord, s)
    \/ \E s \in RecordPhoneInputs : AddPhone(TheRecord, s)
    \/ \E s \in RecordPhoneInputs : RemovePhone(TheRecord, s)
    \/ \E s1 \in RecordPhoneInputs, s2 \in RecordPhoneInputs :
           EditPhone(TheRecord, s1, s2)
    \/ \E s \in RecordBirthdayInputs : AddBirthday(TheRecord, s)
    \/ \E kind \in FieldKinds : \E s \in RecordFieldInputs(kind) : FieldInit(kind, s)
    \/ \E s \in RecordFieldInputs(field.kind) : FieldAssign(s)

SpecRecord == InitField /\ [][NextRecord]_vars

(***************************************************************************)
(* Specification of the phone list of one Record.                          *)
(***************************************************************************)
PhoneListInputs ==
    {<<"1", "2", "3", "4", "5", "6", "7", "8", "9", "0">>,
     <<"0", "9", "8", "7", "6", "5", "4", "3", "2", "1">>,
     <<"5", "5", "5", "5", "5", "5", "5", "5", "5", "5">>,
     <<"1", "2", "3", "-", "4", "5", "6", "-", "7", "8", "9", "0">>,
     <<"1", "2", "3", "4", "5">>}

NextPhones ==
    \/ \E s \in RecordNameInputs : NewRecord(TheRecord, s)
    \/ \E s \in PhoneListInputs : AddPhone(TheRecord, s)
    \/ \E s \in PhoneListInputs : RemovePhone(TheRecord, s)
    \/ \E s1 \in PhoneListInputs, s2 \in PhoneListInputs :
           EditPhone(TheRecord, s1, s2)

SpecPhones == InitField /\ [][NextPhones]_vars

(***************************************************************************)
(* Specification of the AddressBook and the Records it holds.              *)
(***************************************************************************)
BookNameInputs ==
    {<<"A", "l">>,
     <<"B", "o">>,
     <<"A">>}

BookKeyInputs ==
    {<<"A", "l">>,
     <<"B", "o">>,
     <<"a", "l">>}

BookPhoneInputs ==
    {<<"1", "2", "3", "4", "5", "6", "7", "8", "9", "0">>}

BookBirthdayInputs ==
    {<<"0", "1", ".", "0", "1", ".", "1", "9", "9", "0">>}

Init == InitAt({FieldStart})

Next ==
    \/ \E rid \in RecIds, s \in BookNameInputs : NewRecord(rid, s)
    \/ \E rid \in RecIds, s \in BookNameInputs : SetName(rid, s)
    \/ \E rid \in RecIds, s \in BookPhoneInputs : AddPhone(rid, s)
    \/ \E rid \in RecIds, s \in BookBirthdayInputs : AddBirthday(rid, s)
    \/ \E rid \in RecIds : AddRecord(rid)
    \/ \E s \in BookKeyInputs : Find(s)
    \/ \E s \in BookKeyInputs : Delete(s)

Spec == Init /\ [][Next]_vars

(***************************************************************************)
(* Specification of renaming: Records are made, added to the book, renamed *)
(* and looked up.                                                          *)
(***************************************************************************)
NextRename ==
    \/ \E rid \in RecIds, s \in BookNameInputs : NewRecord(rid, s)
    \/ \E rid \in RecIds, s \in BookNameInputs : SetName(rid, s)
    \/ \E rid \in RecIds : AddRecord(rid)
    \/ \E s \in BookKeyInputs : Find(s)

SpecRename == Init /\ [][NextRename]_vars

(***************************************************************************)
(* Specification of the upcoming-birthdays query.  The clock starts on     *)
(* Thu 28.12.2023 or on Sat 28.12.2024.                                    *)
(***************************************************************************)
BirthdaysStarts == {MkDate(2023, 12, 28), MkDate(2024, 12, 28)}

UpcomingNameInputs ==
    {<<"A", "l">>,
     <<"B", "o">>}

UpcomingBirthdayInputs ==
    {<<"2", "7", ".", "1", "2", ".", "1", "9", "9", "0">>,
     <<"2", "8", ".", "1", "2", ".", "1", "9", "9", "0">>,
     <<"3", "0", ".", "1", "2", ".", "1", "9", "9", "0">>,
     <<"3", "1", ".", "1", "2", ".", "1", "9", "9", "0">>,
     <<"0", "4", ".", "0", "1", ".", "1", "9", "9", "1">>,
     <<"0", "5", ".", "0", "1", ".", "1", "9", "9", "1">>,
     <<"2", "9", ".", "0", "2", ".", "2", "0", "0", "0">>}

InitBirthdays == InitAt(BirthdaysStarts)

NextBirthdays ==
    \/ \E rid \in RecIds, s \in UpcomingNameInputs : NewRecord(rid, s)
    \/ \E rid \in RecIds, s \in UpcomingBirthdayInputs : AddBirthday(rid, s)
    \/ \E rid \in RecIds : AddRecord(rid)
    \/ UpcomingBirthdays
    \/ Tick

SpecBirthdays == InitBirthdays /\ [][NextBirthdays]_vars

(***************************************************************************)
(* Specification of the order of the upcoming-birthdays list: every Record *)
(* has a name of its own, and a birthday today, in 7 days, yesterday or    *)
(* none; the Records enter the book in any order.                          *)
(***************************************************************************)
OrderName(rid) == <<"C", DigitChars[rid + 1]>>

OrderBirthdayInputs ==
    {<<"2", "8", ".", "1", "2", ".", "1", "9", "9", "0">>,
     <<"0", "4", ".", "0", "1", ".", "1", "9", "9", "1">>,
     <<"2", "7", ".", "1", "2", ".", "1", "9", "9", "0">>}

InitOrder == InitAt({MkDate(2023, 12, 28)})

NextOrder ==
    \/ \E rid \in RecIds : NewRecord(rid, OrderName(rid))
    \/ \E rid \in RecIds, s \in OrderBirthdayInputs : AddBirthday(rid, s)
    \/ \E rid \in RecIds : AddRecord(rid)
    \/ UpcomingBirthdays

SpecOrder == InitOrder /\ [][NextOrder]_vars

(***************************************************************************)
(* Specification of the congratulation dates: today is Thursday 28.12.2023 *)
(* and moves on day by day; the birthdays fall on the Friday, the Saturday *)
(* and the Sunday of that week and on Monday 01.01 of the next year.       *)
(***************************************************************************)
WeekendBirthdayInputs ==
    {<<"2", "9", ".", "1", "2", ".", "1", "9", "9", "0">>,
     <<"3", "0", ".", "1", "2", ".", "1", "9", "9", "0">>,
     <<"3", "1", ".", "1", "2", ".", "1", "9", "9", "0">>,
     <<"0", "1", ".", "0", "1", ".", "1", "9", "9", "1">>}

NextWeekend ==
    \/ Tick
    \/ \E rid \in RecIds : NewRecord(rid, OrderName(rid))
    \/ \E rid \in RecIds, s \in WeekendBirthdayInputs : AddBirthday(rid, s)
    \/ \E rid \in RecIds : AddRecord(rid)
    \/ UpcomingBirthdays

SpecWeekend == InitOrder /\ [][NextWeekend]_vars

(***************************************************************************)
(* Specification of save_data and load_data on books of Records with and   *)
(* without a phone and a birthday, put into the book in any order.         *)
(***************************************************************************)
NextPersist ==
    \/ \E rid \in RecIds : NewRecord(rid, OrderName(rid))
    \/ \E rid \in RecIds, s \in BookPhoneInputs : AddPhone(rid, s)
    \/ \E rid \in RecIds, s \in BookBirthdayInputs : AddBirthday(rid, s)
    \/ \E rid \in RecIds : AddRecord(rid)
    \/ Save
    \/ Load

SpecPersist == Init /\ [][NextPersist]_vars

(***************************************************************************)
(* Specification of the command prompt of main() and of CLIHandler.run(),  *)
(* on Thu 28.12.2023.                                                      *)
(***************************************************************************)
SessionLines ==
    {
     <<"a", "d", "d", " ", "A", "l", " ", "1", "2", "3", "4", "5", "6",
       "7", "8", "9", "0">>,
     <<"a", "d", "d", " ", "A", "l", " ", "1", "2", "3", "-", "4", "5",
       "6", "-", "7", "8", "9", "0">>,
     <<"a", "d", "d", " ", "B", "o", " ", "0", "9", "8", "7", "6", "5",
       "4", "3", "2", "1">>,
     <<"a", "d", "d", " ", "A", " ", "1", "2", "3", "4", "5", "6", "7",
       "8", "9", "0">>,
     <<"a", "d", "d", " ", "A", "l", " ", "1", "2", "3", "4", "5">>,
     <<"a", "d", "d", " ", "A", "l">>,
     <<" ", " ", "A", "D", "D", " ", " ", "B", "o", " ", " ", " ", "1",
       "2", "3", "4", "5", "6", "7", "8", "9", "0", " ">>,
     <<"c", "h", "a", "n", "g", "e", " ", "A", "l", " ", "1", "2", "3",
       "4", "5", "6", "7", "8", "9", "0", " ", "0", "9", "8", "7", "6",
       "5", "4", "3", "2", "1">>,
     <<"c", "h", "a", "n", "g", "e", " ", "A", "l", " ", "1", "2", "3",
       "4", "5", "6", "7", "8", "9", "0">>,
     <<"p", "h", "o", "n", "e", " ", "A", "l">>,
     <<"p", "h", "o", "n", "e">>,
     <<"a", "l", "l">>,
     <<"a", "d", "d", "-", "b", "i", "r", "t", "h", "d", "a", "y", " ",
       "A", "l", " ", "0", "1", ".", "0", "1", ".", "1", "9", "9", "0">>,
     <<"a", "d", "d", "-", "b", "i", "r", "t", "h", "d", "a", "y", " ",
       "B", "o", " ", "2", "9", ".", "0", "2", ".", "2", "0", "0", "0">>,
     <<"a", "d", "d", "_", "b", "i", "r", "t", "h", "d", "a", "y", " ",
       "A", "l", " ", "0", "1", ".", "0", "1", ".", "1", "9", "9", "0">>,
     <<"a", "d", "d", "_", "b", "i", "r", "t", "h", "d", "a", "y", " ",
       "B", "o", " ", "2", "9", ".", "0", "2", ".", "2", "0", "0", "0">>,
     <<"s", "h", "o", "w", "-", "b", "i", "r", "t", "h", "d", "a", "y",
       " ", "A", "l">>,
     <<"s", "h", "o", "w", "_", "b", "i", "r", "t", "h", "d", "a", "y",
       " ", "A", "l">>,
     <<"b", "i", "r", "t", "h", "d", "a", "y", "s">>,
     <<"h", "e", "l", "l", "o">>,
     <<"h", "e", "l", "p">>,
     <<"e", "x", "i", "t">>,
     <<"c", "l", "o", "s", "e">>,
     <<"E", "x", "i", "t">>,
     <<"q", "u", "i", "t">>,
     <<"f", "o", "o", " ", "A", "l">>,
     <<"a", "d", "d">>,
     <<"a", "d", "d", "-", "b", "i", "r", "t", "h", "d", "a", "y">>,
     <<"s", "h", "o", "w", "-", "b", "i", "r", "t", "h", "d", "a", "y">>,
     <<"a", "d", "d", "-", "b", "i", "r", "t", "h", "d", "a", "y", " ", "A", "l">>,
     <<>>,
     <<" ">>
    }

InitSession == InitAt({MkDate(2023, 12, 28)})

NextSession ==
    \/ MainStart
    \/ \E user_input \in SessionLines : MainLine(user_input)
    \/ CliStart
    \/ \E user_input \in SessionLines : CliLine(user_input)

SpecSession == InitSession /\ [][NextSession]_vars

(***************************************************************************)
(* Properties.                                                             *)
(***************************************************************************)
IsUpcomingCall == last.op = "get_upcoming_birthdays"

\* the contacts of the book that have a birthday, in the order of the book
BookRecords == {heap[book[i].rid] : i \in 1..Len(book)}

WithBirthday == {rec \in BookRecords : rec.birthday # NoDate}

\* the dates the last call of get_upcoming_birthdays returned for a name
Congratulations(name) ==
    IF last.exc # "none" THEN {}
    ELSE {last.ret[j].congratulation_date :
            j \in {k \in 1..Len(last.ret) : last.ret[k].name = name}}

\* the first day from today on that has the month and day of a birthday,
\* looked for among today and the k days after it
OccursWithin(birthday, k) ==
    {n \in 0..k : AddDays(today, n).m = birthday.m /\ AddDays(today, n).d = birthday.d}

Min(S) == CHOOSE x \in S : \A y \in S : x <= y

\* C1: in get_upcoming_birthdays every included contact whose re-anchored
\* birthday falls on a Saturday gets the date 2 days later, and on a Sunday
\* the date 1 day later: the next Monday.
C1_WeekendRollsToMonday ==
    IsUpcomingCall =>
        \A rec \in WithBirthday :
            OccursWithin(rec.birthday, 7) # {} =>
                LET candidate == AddDays(today, Min(OccursWithin(rec.birthday, 7)))
                    monday == IF Weekday(candidate) = 5 THEN AddDays(candidate, 2)
                              ELSE AddDays(candidate, 1)
                IN  Weekday(candidate) >= 5 =>
                        /\ Weekday(monday) = 0
                        /\ Congratulations(rec.name) = {Strftime(monday)}

\* the number of entries of a phone list that hold a value
CountPhone(phones, value) == Cardinality({i \in 1..Len(phones) : phones[i] = value})

\* the digits of a string in their order
DigitsOf(s) == SelectSeq(s, LAMBDA c : c \in Digits)

\* C2: when add_phone succeeded and add_phone is called again on the same
\* Record with a string that normalizes to the same digits, the second call
\* fails with DuplicatePhoneError and the Record holds that phone once.
C2_SecondAddIsDuplicate ==
    [][(/\ last.op = "add_phone" /\ last.exc = "none"
        /\ last'.op = "add_phone" /\ last'.rid = last.rid
        /\ IsStr(last'.args[1])
        /\ DigitsOf(last'.args[1]) = DigitsOf(last.args[1]))
       => /\ last'.exc = "DuplicatePhoneError"
          /\ CountPhone(heap'[last.rid].phones, DigitsOf(last.args[1])) = 1]_vars

\* C3: a Record never holds two phones with equal value.
C3_PhonesUnique ==
    \A rid \in RecIds :
        \A i, j \in 1..Len(heap[rid].phones) :
            i # j => heap[rid].phones[i] # heap[rid].phones[j]

\* C4: get_upcoming_birthdays includes a contact with a birthday if and only
\* if its birthday's month and day occur today or on one of the 7 days after
\* today.
C4_IncludedIffWithinSevenDays ==
    IsUpcomingCall =>
        \A rec \in WithBirthday :
            (Congratulations(rec.name) # {}) <=> (OccursWithin(rec.birthday, 7) # {})

IsFieldCall(kind) == last.op = kind \/ (last.op = "assign" /\ field.kind = kind)

\* ^[A-Za-z][A-Za-z0-9]*([ -][A-Za-z0-9]+)*$
SpecNamePattern(s) ==
    /\ Len(s) >= 1
    /\ s[1] \in Letters
    /\ \A i \in 1..Len(s) : s[i] \in AlNum \cup Separators
    /\ \A i \in 1..Len(s) :
          s[i] \in Separators => (i < Len(s) /\ s[i + 1] \in AlNum)

\* C5: for every string that matches ^[A-Za-z][A-Za-z0-9]*([ -][A-Za-z0-9]+)*$
\* Name succeeds and stores the string stripped of surrounding whitespace.
C5_PatternNamesAccepted ==
    (IsFieldCall("Name") /\ IsStr(last.args[1]) /\ SpecNamePattern(last.args[1]))
        => /\ last.exc = "none"
           /\ field.str = Strip(last.args[1])

\* C6: Phone succeeds exactly when the input string has exactly 10 digits,
\* and then stores those digits in their order; otherwise it fails with
\* InvalidPhoneError; a stored Phone value is always 10 digits.
C6_PhoneTenDigits ==
    /\ (IsFieldCall("Phone") /\ IsStr(last.args[1])) =>
          /\ (last.exc = "none") <=> (Len(DigitsOf(last.args[1])) = 10)
          /\ last.exc = "none" => field.str = DigitsOf(last.args[1])
          /\ last.exc # "none" => last.exc = "InvalidPhoneError"
    /\ field.kind = "Phone" =>
          /\ Len(field.str) = 10
          /\ \A i \in 1..Len(field.str) : field.str[i] \in Digits

\* C6 witness: a phone written with separators was accepted and stored as
\* its 10 digits.
C6_Witness ==
    /\ last.op = "Phone"
    /\ last.exc = "none"
    /\ Len(last.args[1]) > 10
    /\ field.str = <<"1", "2", "3", "4", "5", "6", "7", "8", "9", "0">>

\* a <= b on dates, by year, month and day
DateLeq(a, b) ==
    \/ a.y < b.y
    \/ a.y = b.y /\ a.m < b.m
    \/ a.y = b.y /\ a.m = b.m /\ a.d <= b.d

\* C7: Birthday accepts a date string only when it denotes a real calendar
\* date not later than today: today's date succeeds, tomorrow's fails with
\* InvalidBirthdayError, 31 April fails, 29 February of a leap year succeeds;
\* a stored birthday is always a valid date that is today or in the past.
C7_BirthdayNotFuture ==
    /\ field.kind = "Birthday" =>
          /\ field.date.m \in 1..12
          /\ field.date.d \in 1..DaysInMonth(field.date.y, field.date.m)
          /\ DateLeq(field.date, today)
    /\ IsFieldCall("Birthday") =>
          /\ last.args[1] = Strftime(today) =>
                last.exc = "none" /\ field.date = today
          /\ last.args[1] = Strftime(NextDay(today)) =>
                last.exc = "InvalidBirthdayError"
          /\ last.args[1] = <<"3", "1", ".", "0", "4", ".", "2", "0", "2", "3">> =>
                last.exc = "InvalidBirthdayError"
          /\ (last.args[1] = <<"2", "9", ".", "0", "2", ".", "2", "0", "2", "4">> /\ DateLeq(MkDate(2024, 2, 29), today)) =>
                last.exc = "none" /\ field.date = MkDate(2024, 2, 29)
          /\ last.args[1] = <<"2", "9", ".", "0", "2", ".", "2", "0", "0", "0">> =>
                last.exc = "none" /\ field.date = MkDate(2000, 2, 29)

\* C7 witness: on 29.02.2024 the Birthday of that very day was accepted.
C7_Witness ==
    /\ last.op = "Birthday"
    /\ last.exc = "none"
    /\ today = MkDate(2024, 2, 29)
    /\ field.kind = "Birthday"
    /\ field.date = today

\* DD.MM.YYYY exactly: two digits, a dot, two digits, a dot, four digits
ExactFormat(s) ==
    /\ Len(s) = 10
    /\ s[3] = "." /\ s[6] = "."
    /\ \A i \in {1, 2, 4, 5, 7, 8, 9, 10} : s[i] \in Digits

AssignCalls == {"assign", "name", "birthday", "edit_phone"}

\* C9: an assignment to a Name, Phone or Birthday that fails, fails with a
\* ValidationError subtype and leaves the stored value unchanged; an
\* edit_phone whose new number is invalid leaves the phones as they were.
C9_FailedAssignmentKeepsValue ==
    [][(last'.op \in AssignCalls /\ last'.exc # "none")
       => /\ last'.exc \in ValidationErrors
          /\ field' = field
          /\ heap' = heap]_vars

\* C9 witness: edit_phone of a phone the Record holds was refused for its
\* invalid new number.
C9_Witness ==
    /\ last.op = "edit_phone"
    /\ last.exc = "InvalidPhoneError"
    /\ last.args[1] \in {heap[TheRecord].phones[i] : i \in 1..Len(heap[TheRecord].phones)}

\* C10: add_record of a record whose name is a key fails with
\* DuplicateRecordException and leaves the book and every Record as they
\* were; otherwise the record is inserted under its name value.
C10_AddRecordKeepsExisting ==
    [][last'.op = "add_record" =>
          LET name == heap[last'.rid].name
          IN  IF \E i \in 1..Len(book) : book[i].key = name
              THEN /\ last'.exc = "DuplicateRecordException"
                   /\ book' = book
                   /\ heap' = heap
              ELSE /\ last'.exc = "none"
                   /\ book' = book \o <<[key |-> name, rid |-> last'.rid]>>
                   /\ heap' = heap]_vars

\* C10 witness: add_record of another Record with the name and without the
\* phone of a Record of the book was refused.
C10_Witness ==
    /\ last.op = "add_record"
    /\ last.exc = "DuplicateRecordException"
    /\ \E i \in 1..Len(book) :
          /\ book[i].key = heap[last.rid].name
          /\ book[i].rid # last.rid
          /\ heap[book[i].rid].phones # <<>>
          /\ heap[last.rid].phones = <<>>

\* a string written DD.MM.YYYY exactly that names a day of the calendar not
\* later than today
AcceptableBirthday(s) ==
    /\ ExactFormat(s)
    /\ DateAt(s).y >= 1
    /\ DateAt(s).m \in 1..12
    /\ DateAt(s).d \in 1..DaysInMonth(DateAt(s).y, DateAt(s).m)
    /\ DateLeq(DateAt(s), today)

\* C16: add_birthday on a Record with a birthday fails with
\* DuplicateBirthdayError for a valid and for an invalid string and leaves
\* the Record as it was; on a Record without one it stores the date of a
\* valid string and fails with InvalidBirthdayError for an invalid one,
\* leaving the Record without a birthday.  A successful add_birthday
\* therefore always starts from a Record without a birthday.
C16_AddBirthdayOnce ==
    [][last'.op = "add_birthday" =>
          LET rid == last'.rid
              s == last'.args[1]
          IN  IF heap[rid].birthday # NoDate
              THEN /\ last'.exc = "DuplicateBirthdayError"
                   /\ heap' = heap
              ELSE IF AcceptableBirthday(s)
              THEN /\ last'.exc = "none"
                   /\ heap' = [heap EXCEPT ![rid].birthday = DateAt(s)]
              ELSE /\ last'.exc = "InvalidBirthdayError"
                   /\ heap' = heap
                   /\ heap'[rid].birthday = NoDate]_vars

\* C16 witness: add_birthday with a string that is no date was refused as a
\* duplicate on a Record that holds a birthday.
C16_Witness ==
    /\ last.op = "add_birthday"
    /\ last.exc = "DuplicateBirthdayError"
    /\ ~AcceptableBirthday(last.args[1])
    /\ heap[last.rid].birthday # NoDate

C18_RemovePhoneRemovesOneEntry ==
    [][last'.op = "remove_phone" =>
          LET rid == last'.rid
              number == last'.args[1]
              phones == heap[rid].phones
          IN  IF \A i \in 1..Len(phones) : phones[i] # number
              THEN /\ last'.exc = "PhoneNotFoundException"
                   /\ heap' = heap
              ELSE /\ last'.exc = "none"
                   /\ \E i \in 1..Len(phones) :
                         /\ phones[i] = number
                         /\ \A j \in 1..(i - 1) : phones[j] # number
                         /\ heap' = [heap EXCEPT ![rid].phones =
                                       [k \in 1..(Len(phones) - 1) |->
                                          IF k < i THEN phones[k] ELSE phones[k + 1]]]]_vars

\* C18 witness: remove_phone took the middle one of three phones and the two
\* others are left in their order.
C18_Witness ==
    /\ last.op = "remove_phone"
    /\ last.exc = "none"
    /\ last.args[1] = <<"0", "9", "8", "7", "6", "5", "4", "3", "2", "1">>
    /\ Len(heap[last.rid].phones) = 2
    /\ heap[last.rid].phones[1] # heap[last.rid].phones[2]
    /\ \A i \in 1..2 : heap[last.rid].phones[i] # last.args[1]

\* C19: edit_phone(old, new) on a Record none of whose phones has the value
\* old fails with PhoneNotFoundException, for a valid and for an invalid new,
\* and leaves the Record as it was; otherwise an invalid new fails with
\* InvalidPhoneError and a valid one takes the place of the first phone with
\* the value old: the list keeps its length and every other phone.
C19_EditPhoneInPlace ==
    [][last'.op = "edit_phone" =>
          LET rid == last'.rid
              old == last'.args[1]
              new == last'.args[2]
              phones == heap[rid].phones
          IN  IF \A i \in 1..Len(phones) : phones[i] # old
              THEN /\ last'.exc = "PhoneNotFoundException"
                   /\ heap' = heap
              ELSE IF Len(DigitsOf(new)) # 10
              THEN /\ last'.exc = "InvalidPhoneError"
                   /\ heap' = heap
              ELSE /\ last'.exc = "none"
                   /\ Len(heap'[rid].phones) = Len(phones)
                   /\ \E i \in 1..Len(phones) :
                         /\ phones[i] = old
                         /\ \A j \in 1..(i - 1) : phones[j] # old
                         /\ heap'[rid].phones[i] = DigitsOf(new)
                         /\ \A j \in 1..Len(phones) :
                               j # i => heap'[rid].phones[j] = phones[j]
                   /\ heap' = [heap EXCEPT ![rid].phones = heap'[rid].phones]]_vars

\* C19 witness: edit_phone gave the middle one of three phones a new value
\* written with hyphens, between two phones of other values.
C19_Witness ==
    /\ last.op = "edit_phone"
    /\ last.exc = "none"
    /\ Len(last.args[2]) > 10
    /\ Len(heap[last.rid].phones) = 3
    /\ heap[last.rid].phones[2] = DigitsOf(last.args[2])
    /\ heap[last.rid].phones[1] # heap[last.rid].phones[2]
    /\ heap[last.rid].phones[3] # heap[last.rid].phones[2]
    /\ heap[last.rid].phones[1] # heap[last.rid].phones[3]

\* C20: the list get_upcoming_birthdays returns follows the order in which
\* the contacts were put into the book, whatever their congratulation dates
\* are: its entries are entries of the book, each taken at most once, in the
\* order of the book, and each of a contact that has a birthday.
C20_ResultInInsertionOrder ==
    IsUpcomingCall =>
        \E f \in [1..Len(last.ret) -> 1..Len(book)] :
            /\ \A j, k \in 1..Len(last.ret) : j < k => f[j] < f[k]
            /\ \A j \in 1..Len(last.ret) :
                  /\ heap[book[f[j]].rid].name = last.ret[j].name
                  /\ heap[book[f[j]].rid].birthday # NoDate

\* C20 witness: the list names two contacts, the first with a later
\* congratulation date than the second.
C20_Witness ==
    /\ IsUpcomingCall
    /\ Len(last.ret) = 2
    /\ DateLess(DateAt(last.ret[2].congratulation_date),
                DateAt(last.ret[1].congratulation_date))

IsLine(report) == report.op \in {"main_line", "cli_line"}

\* the words of the line of a report, and its command word
LineWords(report) == Split(report.args[1])

CommandWord(report) == Lower(Head(LineWords(report)))

\* C11: when a session of main() has ended with exit or close and the
\* program is started again, the book the new process loads holds every
\* contact the book of the ended session held, with its name, phones and
\* birthday.
C11_NextStartHoldsContacts ==
    [][(/\ last.op = "main_line"
        /\ last.ret.handler = "EXIT"
        /\ last'.op = "main")
       => \A i \in 1..Len(book) :
             \E j \in 1..Len(book') :
                /\ book'[j].key = book[i].key
                /\ heap'[book'[j].rid] = heap[book[i].rid]]_vars

\* C13: a line at the prompt, whatever it is, is answered with a reply, and
\* the session goes on unless the line is exit or close: no line ends the
\* session with an exception.
C13_NoLineIsFatal ==
    IsLine(last) =>
        /\ last.exc = "none"
        /\ last.ret.reply.text # ""
        /\ session # "crashed"
        /\ (session = "off") <=>
              (LineWords(last) # <<>> /\ CommandWord(last) \in {CloseWord, ExitWord})

\* the command words of the program
CommandWords ==
    {
     <<"a", "d", "d">>,
     <<"c", "h", "a", "n", "g", "e">>,
     <<"p", "h", "o", "n", "e">>,
     <<"a", "l", "l">>,
     <<"a", "d", "d", "-", "b", "i", "r", "t", "h", "d", "a", "y">>,
     <<"s", "h", "o", "w", "-", "b", "i", "r", "t", "h", "d", "a", "y">>,
     <<"b", "i", "r", "t", "h", "d", "a", "y", "s">>,
     <<"h", "e", "l", "l", "o">>,
     <<"e", "x", "i", "t">>,
     <<"c", "l", "o", "s", "e">>,
     <<"h", "e", "l", "p">>
    }

\* C14: a line whose command word is add, change, phone, all, add-birthday,
\* show-birthday, birthdays, hello, exit, close or help is given to the
\* handler of that command and is not answered with the invalid-command
\* message.
C14_CommandWordsDispatched ==
    (IsLine(last) /\ LineWords(last) # <<>> /\ CommandWord(last) \in CommandWords) =>
        /\ last.ret.handler # "none"
        /\ last.ret.reply.text # "Invalid command. Available commands:"

\* the records of the contacts of a book, in its order
Contacts(bk, hp) == [i \in 1..Len(bk) |-> [key |-> bk[i].key, record |-> hp[bk[i].rid]]]

\* C15: add with a name and a phone, for a name that is no key, either puts
\* a contact with that name and that phone alone at the end of the book and
\* answers 'Contact added.' or is refused for its name or phone; for a name
\* that is a key it either appends the phone to the phones of that contact
\* and answers 'Contact updated.' or is refused for its phone.  A refused add
\* leaves the book and its contacts as they were, and every contact of the
\* book has a phone.
C15_AddCommand ==
    [][/\ (IsLine(last') /\ last'.ret.handler = "ADD" /\ Len(LineWords(last')) >= 3) =>
            LET name == LineWords(last')[2]
                phone == LineWords(last')[3]
                text == last'.ret.reply.text
                data == last'.ret.reply.data
            IN  IF \A i \in 1..Len(book) : book[i].key # name
                THEN \/ /\ text = "Contact added."
                        /\ Contacts(book', heap') =
                              Append(Contacts(book, heap),
                                     [key |-> name,
                                      record |-> [live |-> TRUE, name |-> name,
                                                  phones |-> <<DigitsOf(phone)>>,
                                                  birthday |-> NoDate]])
                     \/ /\ text = "str(e)"
                        /\ data[1] \in {"InvalidNameError", "EmptyNameError",
                                        "InvalidPhoneError"}
                        /\ Contacts(book', heap') = Contacts(book, heap)
                ELSE LET i == CHOOSE i \in 1..Len(book) : book[i].key = name
                     IN  \/ /\ text = "Contact updated."
                            /\ Contacts(book', heap') =
                                  [Contacts(book, heap) EXCEPT ![i].record.phones =
                                      Append(@, DigitsOf(phone))]
                         \/ /\ text = "str(e)"
                            /\ data[1] \in {"InvalidPhoneError", "DuplicatePhoneError"}
                            /\ Contacts(book', heap') = Contacts(book, heap)
       /\ IsLine(last') =>
            \A i \in 1..Len(book') : heap'[book'[i].rid].phones # <<>>]_vars

\* C15 witness: add for a new name was refused for its phone and the book,
\* which holds another contact, does not hold that name.
C15_Witness ==
    /\ IsLine(last)
    /\ last.ret.handler = "ADD"
    /\ last.ret.reply = Reply("str(e)", <<"InvalidPhoneError">>)
    /\ Len(book) = 1
    /\ book[1].key # LineWords(last)[2]

\* the command words and the aliases the help listing names
KnownWords == CommandWords \cup {<<"q", "u", "i", "t">>}

\* C21: a line whose first word is no command word is answered with the
\* invalid-command message and the help listing of all commands, and the
\* book and its Records stay as they were.
C21_UnknownWordIsInvalid ==
    [][(IsLine(last') /\ LineWords(last') # <<>> /\ CommandWord(last') \notin KnownWords) =>
          /\ last'.exc = "none"
          /\ last'.ret.handler = "none"
          /\ last'.ret.reply =
                Reply("Invalid command. Available commands:", GetAllCommands)
          /\ book' = book
          /\ heap' = heap]_vars

WhitespaceOnly(s) == \A i \in 1..Len(s) : s[i] \in Whitespace

\* C22: Name raises InvalidNameError for a value that is not a string or
\* does not match the name pattern, and EmptyNameError for an empty or
\* whitespace-only string; a Name that exists never holds an empty or
\* whitespace-only value.
C22_NameErrors ==
    /\ IsFieldCall("Name") =>
          /\ ~IsStr(last.args[1]) => last.exc = "InvalidNameError"
          /\ (IsStr(last.args[1]) /\ WhitespaceOnly(last.args[1]))
                => last.exc = "EmptyNameError"
          /\ (IsStr(last.args[1]) /\ ~WhitespaceOnly(last.args[1])
                /\ ~NameMatches(last.args[1]))
                => last.exc = "InvalidNameError"
    /\ field.kind = "Name" =>
          /\ IsStr(field.str)
          /\ field.str # <<>>
          /\ ~WhitespaceOnly(field.str)

\* a whitespace-only string was assigned to a Name, which kept its value
C22_Witness ==
    /\ last.op = "assign"
    /\ field.kind = "Name"
    /\ last.args[1] = <<" ", " ">>
    /\ last.exc = "EmptyNameError"
    /\ field.str = <<"A", "1">>

\* a separator of s that no letter or digit follows (a second separator, any
\* other character, or the end of the string)
DanglingSeparator(s) ==
    \E i \in 1..Len(s) :
        /\ s[i] \in Separators
        /\ (i = Len(s) \/ s[i + 1] \notin AlNum)

\* C23: Name rejects every string with two consecutive separators or with a
\* separator that no letter or digit follows, and a stored name neither
\* starts nor ends with a space or a hyphen.
C23_NoDanglingSeparator ==
    /\ (IsFieldCall("Name") /\ IsStr(last.args[1]) /\ DanglingSeparator(last.args[1]))
          => last.exc # "none"
    /\ (field.kind = "Name" /\ IsStr(field.str) /\ field.str # <<>>)
          => /\ field.str[1] \notin Separators
             /\ field.str[Len(field.str)] \notin Separators

\* the entries of the book whose Record was renamed after insertion
Renamed(bk, hp) == {i \in 1..Len(bk) : hp[bk[i].rid].name # bk[i].key}

\* C24: assigning record.name on a Record of the book leaves the book's keys
\* as they were; afterwards find of the old name returns that Record, find
\* of the new name returns None, and add_record of another record with the
\* new name succeeds.
C24_RenameKeepsKey ==
    [][/\ (last'.op = "name" /\ InBook(last'.rid)) => book' = book
       /\ \A i \in Renamed(book, heap) :
             /\ (last'.op = "find" /\ last'.args[1] = book[i].key)
                   => last'.rid = book[i].rid
             /\ (last'.op = "find" /\ last'.args[1] = heap[book[i].rid].name)
                   => last'.rid = 0
             /\ (last'.op = "add_record" /\ last'.rid # book[i].rid
                   /\ heap[last'.rid].name = heap[book[i].rid].name)
                   => /\ last'.exc = "none"
                      /\ book' = Append(book, [key |-> heap[last'.rid].name,
                                               rid |-> last'.rid])]_vars

\* C24 amended: the same, when the new name is not a key of the book; a
\* new name that is the key of another Record is found and refused as any
\* key is.
C24_RenameKeepsKeyOfFreshName ==
    [][/\ (last'.op = "name" /\ InBook(last'.rid)) => book' = book
       /\ \A i \in Renamed(book, heap) :
             /\ (last'.op = "find" /\ last'.args[1] = book[i].key)
                   => last'.rid = book[i].rid
             /\ heap[book[i].rid].name \notin Keys(book) =>
                   /\ (last'.op = "find" /\ last'.args[1] = heap[book[i].rid].name)
                         => last'.rid = 0
                   /\ (last'.op = "add_record" /\ last'.rid # book[i].rid
                         /\ heap[last'.rid].name = heap[book[i].rid].name)
                         => /\ last'.exc = "none"
                            /\ book' = Append(book, [key |-> heap[last'.rid].name,
                                                     rid |-> last'.rid])]_vars

\* C24 witness: a Record of the book was renamed and another record with the
\* new name was added beside it.
C24_Witness ==
    /\ last.op = "add_record"
    /\ last.exc = "none"
    /\ Len(book) = 2
    /\ book[2].rid = last.rid
    /\ book[1].rid # last.rid
    /\ book[1].key # book[2].key
    /\ heap[book[1].rid].name = book[2].key
    /\ heap[book[2].rid].name = book[2].key

\* exit and the aliases Commands.EXIT lists
ExitWords == {ExitWord, CloseWord, <<"q", "u", "i", "t">>}

\* C25: a line ends the session exactly when its word is exit, close or
\* quit, and is then answered 'Good bye!'; after every other line the
\* session runs on.
C25_SessionEndsOnExitWords ==
    [][IsLine(last') =>
          IF LineWords(last') # <<>> /\ CommandWord(last') \in ExitWords
          THEN /\ session' = "off"
               /\ last'.ret.reply.text = "Good bye!"
          ELSE session' = session]_vars

\* the number of arguments the handler of a command word unpacks
ArgsNeeded(word) ==
    IF word = <<"a", "d", "d">> THEN 2
    ELSE IF word = <<"c", "h", "a", "n", "g", "e">> THEN 3
    ELSE IF word = <<"p", "h", "o", "n", "e">> THEN 1
    ELSE IF word = <<"a", "d", "d", "-", "b", "i", "r", "t", "h", "d", "a", "y">> THEN 2
    ELSE IF word = <<"s", "h", "o", "w", "-", "b", "i", "r", "t", "h", "d", "a", "y">> THEN 1
    ELSE 0

ArgumentCountMessages ==
    {"Give me name and phone please.",
     "Invalid number of arguments. Please check command format."}

C27_UpcomingNeverRaises ==
    IsUpcomingCall => last.exc = "none"

\* C28: every congratulation date get_upcoming_birthdays returns is a day
\* from Monday to Friday and not before today, and it is the next occurrence
\* of the birthday itself when that falls on a day from Monday to Friday.
C28_CongratulationOnWeekday ==
    (IsUpcomingCall /\ last.exc = "none") =>
        \A j \in 1..Len(last.ret) :
            LET congratulation_date == DateAt(last.ret[j].congratulation_date)
            IN  /\ last.ret[j].congratulation_date = Strftime(congratulation_date)
                /\ ValidDate(congratulation_date.y, congratulation_date.m, congratulation_date.d)
                /\ Weekday(congratulation_date) \in 0..4
                /\ ~DateLess(congratulation_date, today)
                /\ \A rec \in WithBirthday :
                      (rec.name = last.ret[j].name /\ OccursWithin(rec.birthday, 7) # {}) =>
                          LET candidate ==
                                  AddDays(today, Min(OccursWithin(rec.birthday, 7)))
                          IN  Weekday(candidate) \in 0..4
                                  => congratulation_date = candidate

\* C28 witness: the list holds a birthday of Friday 29.12.2023 on its day and
\* a birthday of the weekend after it on Tuesday 02.01.2024.
C28_Witness ==
    /\ IsUpcomingCall
    /\ last.exc = "none"
    /\ Len(last.ret) = 2
    /\ \E j, k \in 1..2 :
          /\ DateAt(last.ret[j].congratulation_date) = MkDate(2023, 12, 29)
          /\ DateAt(last.ret[k].congratulation_date) = MkDate(2024, 1, 2)

\* C29: at the command prompt every key of the book is the name value of
\* the Record stored under it, and no two Records of the book have the same
\* name.
C29_KeysAreNames ==
    /\ \A i \in 1..Len(book) : book[i].key = heap[book[i].rid].name
    /\ \A i, j \in 1..Len(book) :
          i # j => /\ book[i].rid # book[j].rid
                   /\ heap[book[i].rid].name # heap[book[j].rid].name

\* C29 witness: with two contacts in the book, add for the name of one of
\* them was answered 'Contact updated.'
C29_Witness ==
    /\ IsLine(last)
    /\ last.ret.handler = "ADD"
    /\ last.ret.reply.text = "Contact updated."
    /\ Len(book) = 2
    /\ \E i \in 1..2 : book[i].key = LineWords(last)[2]

ReadOnlyWords ==
    {<<"p", "h", "o", "n", "e">>,
     <<"a", "l", "l">>,
     <<"s", "h", "o", "w", "-", "b", "i", "r", "t", "h", "d", "a", "y">>,
     <<"b", "i", "r", "t", "h", "d", "a", "y", "s">>,
     <<"h", "e", "l", "l", "o">>,
     <<"h", "e", "l", "p">>}

LookupWords ==
    {<<"c", "h", "a", "n", "g", "e">>,
     <<"a", "d", "d", "-", "b", "i", "r", "t", "h", "d", "a", "y">>}

NotFoundReplies ==
    {Reply("str(e)", <<"RecordNotFoundException">>),
     Reply("Contact not found.", <<>>)}

====
